---- MODULE Spec2Model ----
(***************************************************************************)
(* A model of the MIR dump engine of librustc_mir/util/pretty.rs: the dump *)
(* gate (dump_enabled), the textual dump with its hook (dump_mir,          *)
(* dump_matched_mir_node, write_mir_fn, write_basic_block), the allocation *)
(* appendix (write_allocations) and the hex/ASCII byte formatter           *)
(* (write_allocation_bytes).                                               *)
(*                                                                         *)
(* Each component has its own specification over the shared variables:     *)
(*   SpecGate   dump_enabled over all short filter strings                 *)
(*   Spec       dump_mir calls, one dump at a time                         *)
(*   SpecAlloc  the worklist loop of write_allocations                     *)
(*   SpecBytes  write_allocation_bytes over one allocation                 *)
(* A specification leaves the variables of the other components at their   *)
(* initial values.                                                         *)
(*                                                                         *)
(* Strings are sequences of one-character strings.                         *)
(***************************************************************************)
EXTENDS Integers, Sequences, FiniteSets, TLC

VARIABLES
    \* session options and the arguments of the current dump_mir call
    filter,        \* debugging_opts.dump_mir: [some |-> BOOLEAN, s |-> string]
    graphviz,      \* debugging_opts.dump_mir_graphviz
    pass_name,     \* pass_name argument
    node_path,     \* tcx.def_path_str(def_id)
    enabled,       \* the value dump_enabled returned
    \* the textual dump
    pc,            \* position of dump_mir / dump_matched_mir_node
    body,          \* basic blocks of the body: body[b+1] = statement count
    block,         \* loop variable of write_mir_fn
    statement_index, \* current_location.statement_index
    out,           \* hook invocations and writes of the current dump, in order
    failed,        \* the try block of the current dump left with an Err
    files,         \* dump files created so far: <<pass_name, node_path, extension>>
    partial,       \* the files of files a dump stopped writing on an Err
    calls,         \* number of dump_mir calls made
    \* write_allocations
    wa_pc,         \* position of write_allocations
    body_consts,   \* the constant values of the body the visitor has yet to visit
    body_ids,      \* the ids CollectAllocIds finds in the constants of the body
    seen,          \* seen
    todo,          \* todo
    id,            \* the id popped from todo
    alloc,         \* the entry tcx.alloc_map.lock().get(id) returned
    alloc_map,     \* the entries of tcx.alloc_map read so far
    lock,          \* this thread holds the lock of tcx.alloc_map
    w,             \* what write_allocations has written
    w_error,       \* a write to w returned Err
    iterations,    \* iterations of the while loop begun
    \* write_allocation_bytes
    wb_pc,         \* position of write_allocation_bytes
    size,          \* alloc.size
    ptr_size,      \* tcx.data_layout.pointer_size
    reloc_offsets, \* the offsets of alloc.relocations()
    undef_mask,    \* the offsets alloc.undef_mask() gives as undefined
    i,             \* i
    line_start,    \* line_start
    ascii,         \* ascii
    line,          \* the line being written: its address column and hex tokens
    lines,         \* the lines ended by write_allocation_endline
    \* dump_path
    dp_args,       \* the arguments and session options of the last dump_path call
    dp_path,       \* the PathBuf it returned
    dp_prev_args,  \* the arguments of the call before
    dp_prev_path,  \* the PathBuf the call before returned
    dp_calls,      \* number of dump_path calls made
    \* write_mir_intro, write_scope_tree
    st_pc,         \* position of write_mir_intro / write_scope_tree
    source_scopes, \* body.source_scopes: source_scopes[k+1] = parent_scope of scope k
    var_debug_info, \* body.var_debug_info: the scope of each record
    local_decls,   \* body.local_decls: the scope of each local, _0 first
    arg_count,     \* body.arg_count
    scope_tree,    \* scope_tree: the children of each scope, in index order
    stack,         \* the calls of write_scope_tree in progress, innermost last
    st_out,        \* the lines write_scope_tree has written
    \* sys::switch::fs
    fs_files,      \* the File values created so far, dropped ones included
    fs_closed,     \* per handle OpenFile has returned: the CloseFile calls on it
    fs_ret,        \* what the last File operation returned
    fs_threads,    \* the File::write calls in progress on one File, per thread
    fs_backend     \* per handle OpenFile has returned: the size of its file

dumpVars == <<pc, body, block, statement_index, out, failed, files, partial, calls>>
gateVars == <<filter, graphviz, pass_name, node_path, enabled>>
allocVars == <<wa_pc, body_consts, body_ids, seen, todo, id, alloc, alloc_map, lock, w, w_error,
               iterations>>
byteVars == <<wb_pc, size, ptr_size, reloc_offsets, undef_mask, i, line_start, ascii, line,
              lines>>
pathVars == <<dp_args, dp_path, dp_prev_args, dp_prev_path, dp_calls>>
scopeVars == <<st_pc, source_scopes, var_debug_info, local_decls, arg_count, scope_tree,
               stack, st_out>>
fsVars == <<fs_files, fs_closed, fs_ret, fs_threads, fs_backend>>
restVars == <<pathVars, scopeVars, fsVars>>
vars == <<gateVars, dumpVars, allocVars, byteVars, restVars>>

----------------------------------------------------------------------------
(* Bounds *)

MaxFilterLen == 4     \* longest filter string SpecGate draws
MaxNameLen == 2       \* longest pass name / item path SpecGate draws

FilterChars == {"a", "l", "|", "&"}
NameChars == {"a", "l"}

RECURSIVE StringsUpTo(_, _)
StringsUpTo(chars, n) ==
    IF n = 0 THEN {<<>>}
    ELSE LET shorter == StringsUpTo(chars, n - 1)
         IN  shorter \cup {Append(s, c) : s \in {t \in shorter : Len(t) = n - 1}, c \in chars}

Range(s) == {s[k] : k \in 1..Len(s)}

----------------------------------------------------------------------------
(* dump_enabled *)

\* str::contains with a string pattern: the pattern occurs at some offset
\* (the empty pattern occurs in every string).
contains(haystack, needle) ==
    \E k \in 0..(Len(haystack) - Len(needle)) :
        SubSeq(haystack, k + 1, k + Len(needle)) = needle

\* str::split with a char pattern, scanning left to right: every delimiter
\* ends one piece, and the rest of the string is the last piece (so the empty
\* string splits into one empty piece).
RECURSIVE SplitFrom(_, _, _, _, _)
SplitFrom(s, delim, k, piece, pieces) ==
    IF k > Len(s) THEN Append(pieces, piece)
    ELSE IF s[k] = delim THEN SplitFrom(s, delim, k + 1, <<>>, Append(pieces, piece))
    ELSE SplitFrom(s, delim, k + 1, Append(piece, s[k]), pieces)

split(s, delim) == SplitFrom(s, delim, 1, <<>>, <<>>)

ALL == <<"a", "l", "l">>

\* The same test without the item path.
and_filter_matches_pass_only(and_filter, pass, path) ==
    and_filter = ALL \/ contains(pass, and_filter)

and_filter_matches(and_filter, pass, path) ==
    and_filter = ALL \/ contains(pass, and_filter) \/ contains(path, and_filter)

dump_enabled(f, pass, path) ==
    IF ~f.some THEN FALSE
    ELSE \E or_filter \in Range(split(f.s, "|")) :
            \A and_filter \in Range(split(or_filter, "&")) :
                and_filter_matches(and_filter, pass, path)

NoFilter == [some |-> FALSE, s |-> <<>>]
SomeFilter(s) == [some |-> TRUE, s |-> s]

----------------------------------------------------------------------------
(* SpecGate: dump_enabled on every short filter, pass name and item path *)

\* The entries of tcx.alloc_map: what get(id) returns. eval is the result of
\* const_eval_poly on a non-foreign static, relocations the targets of
\* alloc.relocations() in offset order.
Entry(kind, eval, relocations) == [kind |-> kind, eval |-> eval, relocations |-> relocations]
NotRead == Entry("?", "-", <<>>)

AllocIdle ==
    /\ wa_pc = "idle" /\ body_consts = <<>> /\ body_ids = {} /\ seen = {} /\ todo = <<>> /\ id = 0
    /\ alloc = NotRead /\ alloc_map = <<>> /\ lock = FALSE
    /\ w = <<>> /\ w_error = FALSE /\ iterations = 0

NoLine == [address |-> -1, hex |-> <<>>]

BytesIdle ==
    /\ wb_pc = "idle" /\ size = 0 /\ ptr_size = 0 /\ reloc_offsets = {} /\ undef_mask = {}
    /\ i = 0 /\ line_start = 0 /\ ascii = <<>> /\ line = NoLine /\ lines = <<>>

\* The variables of the other specifications, before their first step.
NoArgs == [called |-> FALSE]
NoPath == [dir |-> <<>>, file_name |-> <<>>]

PathIdle ==
    /\ dp_args = NoArgs /\ dp_path = NoPath
    /\ dp_prev_args = NoArgs /\ dp_prev_path = NoPath /\ dp_calls = 0

ScopeIdle ==
    /\ st_pc = "idle" /\ source_scopes = <<>> /\ var_debug_info = <<>> /\ local_decls = <<>>
    /\ arg_count = 0 /\ scope_tree = <<>> /\ stack = <<>> /\ st_out = <<>>

\* No File operation yet.
NoRet == [op |-> "none", file |-> 0, whence |-> "", offset |-> 0, before |-> 0,
          err |-> "", value |-> 0]

FsIdle ==
    /\ fs_files = <<>> /\ fs_closed = <<>> /\ fs_ret = NoRet /\ fs_threads = <<>>
    /\ fs_backend = <<>>

RestIdle == PathIdle /\ ScopeIdle /\ FsIdle

DumpIdle ==
    /\ pc = "idle" /\ body = <<>> /\ block = 0 /\ statement_index = 0
    /\ out = <<>> /\ failed = FALSE /\ files = {} /\ partial = {} /\ calls = 0

InitGate ==
    /\ filter \in {NoFilter} \cup {SomeFilter(s) : s \in StringsUpTo(FilterChars, MaxFilterLen)}
    /\ pass_name \in StringsUpTo(NameChars, MaxNameLen)
    /\ node_path \in StringsUpTo(NameChars, MaxNameLen)
    /\ graphviz = FALSE
    /\ enabled = FALSE
    /\ DumpIdle
    /\ AllocIdle
    /\ BytesIdle
    /\ RestIdle

\* One evaluation of dump_enabled(tcx, pass_name, def_id).
DumpEnabled ==
    /\ calls = 0
    /\ calls' = 1
    /\ enabled' = dump_enabled(filter, pass_name, node_path)
    /\ UNCHANGED <<filter, graphviz, pass_name, node_path>>
    /\ UNCHANGED <<pc, body, block, statement_index, out, failed, files, partial>>
    /\ UNCHANGED <<allocVars, byteVars, restVars>>

NextGate == DumpEnabled

SpecGate == InitGate /\ [][NextGate]_vars

\* Segment(s, d, lo, hi, from, to): s[from..to] is a maximal stretch of s[lo..hi]
\* free of the delimiter d (from = to + 1 is an empty stretch between two
\* delimiters).
Segment(s, d, lo, hi, from, to) ==
    /\ from \in lo..(hi + 1) /\ to \in (from - 1)..hi
    /\ \A k \in from..to : s[k] # d
    /\ (from = lo \/ s[from - 1] = d)
    /\ (to = hi \/ s[to + 1] = d)

TermMatches(term, pass, path) ==
    term = ALL \/ contains(pass, term) \/ contains(path, term)

FilterAccepts(s, pass, path) ==
    \E g1 \in 1..(Len(s) + 1), g2 \in 0..Len(s) :
        /\ Segment(s, "|", 1, Len(s), g1, g2)
        /\ \A t1 \in g1..(g2 + 1), t2 \in (g1 - 1)..g2 :
              Segment(s, "&", g1, g2, t1, t2) => TermMatches(SubSeq(s, t1, t2), pass, path)

ExampleFilter == <<"f","o","o","&","n","l","l","|","t","y","p","e","c","k">>
ExamplePass == <<"n","l","l","-","b","o","r","r","o","w","c","k">>
ExamplePath == <<"f","o","o",":",":","b","a","r">>
OtherPass == <<"o","t","h","e","r">>
OtherPath == <<"b","a","z">>

ExampleAccepted == dump_enabled(SomeFilter(ExampleFilter), ExamplePass, ExamplePath)
ExampleRejected == dump_enabled(SomeFilter(ExampleFilter), OtherPass, OtherPath)

\* C2: with a filter configured, dump_enabled returns true exactly when some
\* '|'-separated group of the filter has all its '&'-separated terms matching
\* (a term matches when it is "all" or a substring of the pass name or of the
\* item path); "foo&nll|typeck" accepts (nll-borrowck, foo::bar) and rejects
\* (other, baz).
C2_GateMatchesGroups ==
    /\ (calls = 1 /\ filter.some) =>
            (enabled <=> FilterAccepts(filter.s, pass_name, node_path))
    /\ ExampleAccepted
    /\ ~ExampleRejected

\* The group "ll" fails, the group "a" matches the pass name.
C2_Witness ==
    /\ calls = 1 /\ enabled
    /\ filter = SomeFilter(<<"l", "l", "|", "a">>)
    /\ pass_name = <<"a">> /\ node_path = <<"l">>

----------------------------------------------------------------------------
(* SpecGateDoc: dump_enabled on the filters of the doc comment of dump_mir *)

Foo == <<"f", "o", "o">>
Nll == <<"n", "l", "l">>
Bar == <<"b", "a", "r">>
Typeck == <<"t", "y", "p", "e", "c", "k">>

\* The examples of the doc comment, character for character:
\* `nll`, `foo & nll`, `foo & nll | typeck`, `foo & nll | bar & typeck`.
DocFilterAnd == Foo \o <<" ", "&", " ">> \o Nll
DocFilterAndOr == DocFilterAnd \o <<" ", "|", " ">> \o Typeck
DocFilterAndOrAnd == DocFilterAnd \o <<" ", "|", " ">> \o Bar \o <<" ", "&", " ">> \o Typeck
DocFilters == {Nll, DocFilterAnd, DocFilterAndOr, DocFilterAndOrAnd}

DocPassNames == {Nll, Typeck, <<"n", "l", "l", "-", "f", "o", "o">>, <<"c", "o", "p", "y">>}
DocNodePaths == {Foo, Bar, <<"m", "a", "i", "n">>, Foo \o <<":", ":">> \o Bar}

InitGateDoc ==
    /\ filter \in {SomeFilter(s) : s \in DocFilters}
    /\ pass_name \in DocPassNames
    /\ node_path \in DocNodePaths
    /\ graphviz = FALSE
    /\ enabled = FALSE
    /\ DumpIdle
    /\ AllocIdle
    /\ BytesIdle
    /\ RestIdle

SpecGateDoc == InitGateDoc /\ [][NextGate]_vars

Appears(term) == contains(pass_name, term) \/ contains(node_path, term)

\* C15: the filter `foo & nll | typeck`, written with the spaces of the doc
\* comment, enables the dump whenever foo and nll both appear in the name, or
\* typeck appears in the name.
C15_DocFilterWithSpaces ==
    (calls = 1 /\ filter = SomeFilter(DocFilterAndOr)) =>
        (((Appears(Foo) /\ Appears(Nll)) \/ Appears(Typeck)) => enabled)

----------------------------------------------------------------------------
(* Spec: dump_mir, dump_matched_mir_node, write_mir_fn, write_basic_block *)

MaxBlocks == 2        \* most basic blocks of a body
MaxStatements == 2    \* most statements of a basic block
MaxCalls == 2         \* most dump_mir calls of a session

DumpFilters == {NoFilter, SomeFilter(ALL), SomeFilter(<<"a">>)}
PassNames == {<<"a">>, <<"l">>}
NodePaths == {<<"l">>}

\* A body has at least its start block; body[b+1] is the statement count of bb<b>.
Bodies == UNION {[1..n -> 0..MaxStatements] : n \in 1..MaxBlocks}

Init ==
    /\ filter \in DumpFilters
    /\ graphviz \in BOOLEAN
    /\ pass_name = <<>> /\ node_path = <<>>
    /\ enabled = FALSE
    /\ DumpIdle
    /\ AllocIdle
    /\ BytesIdle
    /\ RestIdle

\* PassWhere values, as the hook receives them (-1: the variant has no such field).
HookEvent(at, b, idx) == [kind |-> "hook", at |-> at, block |-> b, index |-> idx]
WriteEvent(what, b, idx) == [kind |-> "write", at |-> what, block |-> b, index |-> idx]

\* The file the textual dump of the current call writes.
MirFile == <<pass_name, node_path, "mir">>

\* The ? operator inside the try block: on Err the block is left, and what the
\* file holds stays a part of the dump.
LeaveTry ==
    /\ pc' = "graphviz" /\ failed' = TRUE
    /\ partial' = partial \cup {MirFile}

\* extra_data(at, w)?: the hook is invoked; on Err the try block is left.
CallHook(ev, next) ==
    /\ out' = Append(out, ev)
    /\ \E ok \in BOOLEAN :
          IF ok THEN pc' = next /\ failed' = failed /\ partial' = partial
          ELSE LeaveTry

\* A write whose Err is dropped: the dump goes on.
WriteOut_continues(ev, next) ==
    \E ok \in BOOLEAN :
        /\ pc' = next
        /\ IF ok THEN out' = Append(out, ev) /\ failed' = failed /\ partial' = partial
           ELSE out' = out /\ failed' = TRUE /\ partial' = partial \cup {MirFile}

\* write!(w, ..)?: the text reaches the sink, or the try block is left on Err.
WriteOut(ev, next) ==
    \E ok \in BOOLEAN :
        IF ok THEN /\ out' = Append(out, ev) /\ pc' = next
                   /\ failed' = failed /\ partial' = partial
        ELSE out' = out /\ LeaveTry

\* dump_mir without the early return of the gate.
DumpMir_ungated ==
    /\ pc = "idle" /\ calls < MaxCalls
    /\ \E p \in PassNames, n \in NodePaths :
          /\ pass_name' = p /\ node_path' = n
          /\ enabled' = dump_enabled(filter, p, n)
          /\ calls' = calls + 1
          /\ pc' = "create" /\ body' \in Bodies
          /\ UNCHANGED <<block, statement_index, out, failed, files, partial>>
    /\ UNCHANGED <<filter, graphviz>>
    /\ UNCHANGED <<allocVars, byteVars, restVars>>

\* dump_mir: the gate, then dump_matched_mir_node.
DumpMir ==
    /\ pc = "idle" /\ calls < MaxCalls
    /\ \E p \in PassNames, n \in NodePaths :
          /\ pass_name' = p /\ node_path' = n
          /\ enabled' = dump_enabled(filter, p, n)
          /\ calls' = calls + 1
          /\ IF dump_enabled(filter, p, n)
             THEN /\ pc' = "create" /\ body' \in Bodies
                  /\ UNCHANGED <<block, statement_index, out, failed, files, partial>>
             ELSE UNCHANGED <<pc, body, block, statement_index, out, failed, files, partial>>
    /\ UNCHANGED <<filter, graphviz>>
    /\ UNCHANGED <<allocVars, byteVars, restVars>>

\* create_dump_file(tcx, "mir", ..)?
CreateDumpFile ==
    /\ pc = "create"
    /\ \E ok \in BOOLEAN :
          IF ok THEN /\ files' = files \cup {MirFile}
                     /\ partial' = partial \ {MirFile}
                     /\ pc' = "header" /\ failed' = failed
          ELSE /\ files' = files /\ partial' = partial
               /\ pc' = "graphviz" /\ failed' = TRUE
    /\ UNCHANGED <<allocVars, byteVars, restVars, gateVars, body, block, statement_index, out, calls>>

\* The "// MIR for" header lines.
WriteHeader ==
    /\ pc = "header"
    /\ WriteOut(WriteEvent("header", -1, -1), "before_cfg")
    /\ UNCHANGED <<allocVars, byteVars, restVars, gateVars, body, block, statement_index, files, calls>>

HookBeforeCFG ==
    /\ pc = "before_cfg"
    /\ CallHook(HookEvent("BeforeCFG", -1, -1), "annotations")
    /\ UNCHANGED <<allocVars, byteVars, restVars, gateVars, body, block, statement_index, files, calls>>

WriteUserTypeAnnotations ==
    /\ pc = "annotations"
    /\ WriteOut(WriteEvent("annotations", -1, -1), "intro")
    /\ UNCHANGED <<allocVars, byteVars, restVars, gateVars, body, block, statement_index, files, calls>>

\* write_mir_fn: write_mir_intro, then the loop over the blocks starts at bb0.
WriteMirIntro ==
    /\ pc = "intro"
    /\ WriteOut(WriteEvent("intro", -1, -1), "block_loop")
    /\ block' = 0
    /\ UNCHANGED <<allocVars, byteVars, restVars, gateVars, body, statement_index, files, calls>>

\* Loop head of write_mir_fn: the next block, or the end of the loop.
HookBeforeBlock ==
    /\ pc = "block_loop" /\ block < Len(body)
    /\ CallHook(HookEvent("BeforeBlock", block, -1), "block_header")
    /\ UNCHANGED <<allocVars, byteVars, restVars, gateVars, body, block, statement_index, files, calls>>

\* write_basic_block: the label line; current_location starts at statement 0.
WriteBlockHeader ==
    /\ pc = "block_header"
    /\ WriteOut(WriteEvent("block_header", block, -1), "before_location")
    /\ statement_index' = 0
    /\ UNCHANGED <<allocVars, byteVars, restVars, gateVars, body, block, files, calls>>

\* BeforeLocation of a statement (inside the for loop) or of the terminator.
HookBeforeLocation ==
    /\ pc = "before_location"
    /\ CallHook(HookEvent("BeforeLocation", block, statement_index),
                IF statement_index < body[block + 1] THEN "statement" ELSE "terminator")
    /\ UNCHANGED <<allocVars, byteVars, restVars, gateVars, body, block, statement_index, files, calls>>

\* The statement line and its extra comments.
WriteStatement ==
    /\ pc = "statement"
    /\ WriteOut(WriteEvent("statement", block, statement_index), "after_statement")
    /\ UNCHANGED <<allocVars, byteVars, restVars, gateVars, body, block, statement_index, files, calls>>

\* The statement loop with AfterLocation left out.
HookAfterStatement_skipped ==
    /\ pc = "after_statement"
    /\ pc' = "before_location"
    /\ statement_index' = statement_index + 1
    /\ UNCHANGED <<allocVars, byteVars, restVars, gateVars, body, block, out, failed, files, partial, calls>>

\* AfterLocation of a statement, then current_location.statement_index += 1.
HookAfterStatement ==
    /\ pc = "after_statement"
    /\ CallHook(HookEvent("AfterLocation", block, statement_index), "before_location")
    /\ statement_index' = IF pc' = "before_location" THEN statement_index + 1
                          ELSE statement_index
    /\ UNCHANGED <<allocVars, byteVars, restVars, gateVars, body, block, files, calls>>

\* The terminator line and its extra comments.
WriteTerminator ==
    /\ pc = "terminator"
    /\ WriteOut(WriteEvent("terminator", block, statement_index), "after_location")
    /\ UNCHANGED <<allocVars, byteVars, restVars, gateVars, body, block, statement_index, files, calls>>

HookAfterLocation ==
    /\ pc = "after_location"
    /\ CallHook(HookEvent("AfterLocation", block, statement_index), "after_terminator")
    /\ UNCHANGED <<allocVars, byteVars, restVars, gateVars, body, block, statement_index, files, calls>>

HookAfterTerminator ==
    /\ pc = "after_terminator"
    /\ CallHook(HookEvent("AfterTerminator", block, -1), "block_close")
    /\ UNCHANGED <<allocVars, byteVars, restVars, gateVars, body, block, statement_index, files, calls>>

\* The closing brace of the block, the blank line unless the block is the last;
\* the loop of write_mir_fn goes on with the next block.
WriteBlockClose ==
    /\ pc = "block_close"
    /\ WriteOut(WriteEvent(IF block + 1 # Len(body) THEN "block_close_sep" ELSE "block_close",
                           block, -1), "block_loop")
    /\ block' = IF pc' = "block_loop" THEN block + 1 ELSE block
    /\ UNCHANGED <<allocVars, byteVars, restVars, gateVars, body, statement_index, files, calls>>

\* After the loop: the closing brace of the function.
WriteClose ==
    /\ pc = "block_loop" /\ block >= Len(body)
    /\ WriteOut(WriteEvent("close", -1, -1), "allocations")
    /\ UNCHANGED <<allocVars, byteVars, restVars, gateVars, body, block, statement_index, files, calls>>

\* write_allocations(tcx, body, w)?: the appendix as one write (SpecAlloc has
\* the loop itself).
WriteAllocations ==
    /\ pc = "allocations"
    /\ WriteOut(WriteEvent("allocations", -1, -1), "after_cfg")
    /\ UNCHANGED <<allocVars, byteVars, restVars, gateVars, body, block, statement_index, files, calls>>

\* The last statement of the try block.
HookAfterCFG ==
    /\ pc = "after_cfg"
    /\ CallHook(HookEvent("AfterCFG", -1, -1), "graphviz")
    /\ UNCHANGED <<allocVars, byteVars, restVars, gateVars, body, block, statement_index, files, calls>>

\* The second try block; then dump_matched_mir_node and dump_mir return, and
\* the locals of the call (the writer, the body borrowed for it) are gone.
DumpGraphviz ==
    /\ pc = "graphviz"
    /\ IF graphviz
       THEN \E ok \in BOOLEAN :
               files' = IF ok THEN files \cup {<<pass_name, node_path, "dot">>} ELSE files
       ELSE files' = files
    /\ pc' = "idle"
    /\ body' = <<>> /\ block' = 0 /\ statement_index' = 0
    /\ out' = <<>> /\ failed' = FALSE
    /\ UNCHANGED <<allocVars, byteVars, restVars, gateVars, partial, calls>>

Next ==
    \/ DumpMir
    \/ CreateDumpFile
    \/ WriteHeader
    \/ HookBeforeCFG
    \/ WriteUserTypeAnnotations
    \/ WriteMirIntro
    \/ HookBeforeBlock
    \/ WriteBlockHeader
    \/ HookBeforeLocation
    \/ WriteStatement
    \/ HookAfterStatement
    \/ WriteTerminator
    \/ HookAfterLocation
    \/ HookAfterTerminator
    \/ WriteBlockClose
    \/ WriteClose
    \/ WriteAllocations
    \/ HookAfterCFG
    \/ DumpGraphviz

Spec == Init /\ [][Next]_vars

HooksOf(trace) == SelectSeq(trace, LAMBDA e : e.kind = "hook")

IsPrefix(s, t) == Len(s) <= Len(t) /\ SubSeq(t, 1, Len(s)) = s

\* BeforeLocation(b, i), AfterLocation(b, i) for i = from..n.
RECURSIVE LocationPairs(_, _, _)
LocationPairs(b, from, n) ==
    IF from > n THEN <<>>
    ELSE <<HookEvent("BeforeLocation", b, from), HookEvent("AfterLocation", b, from)>>
         \o LocationPairs(b, from + 1, n)

RECURSIVE BlockHooks(_, _)
BlockHooks(bdy, b) ==
    IF b >= Len(bdy) THEN <<>>
    ELSE <<HookEvent("BeforeBlock", b, -1)>> \o LocationPairs(b, 0, bdy[b + 1])
         \o <<HookEvent("AfterTerminator", b, -1)>> \o BlockHooks(bdy, b + 1)

ExpectedHooks(bdy) ==
    <<HookEvent("BeforeCFG", -1, -1)>> \o BlockHooks(bdy, 0) \o <<HookEvent("AfterCFG", -1, -1)>>

\* C1: a dump in which every write and hook call succeeds invokes the hook as
\* BeforeCFG; per block in index order BeforeBlock(b), the pairs
\* BeforeLocation(b,i), AfterLocation(b,i) for i = 0..n_b, AfterTerminator(b);
\* and AfterCFG last, right after the closing brace and the allocation appendix.
\* No other hook invocation occurs: at any moment the invocations made so far are
\* a prefix of that sequence.
C1_HookOrder ==
    /\ IsPrefix(HooksOf(out), ExpectedHooks(body))
    /\ (pc = "graphviz" /\ ~failed) =>
          /\ HooksOf(out) = ExpectedHooks(body)
          /\ SubSeq(out, Len(out) - 2, Len(out)) =
                <<WriteEvent("close", -1, -1), WriteEvent("allocations", -1, -1),
                  HookEvent("AfterCFG", -1, -1)>>

\* A complete dump of a body with two blocks, the first with a statement.
C1_Witness ==
    /\ pc = "graphviz" /\ ~failed
    /\ Len(body) = 2 /\ body[1] = 1

\* C3: without a filter dump_enabled is false for every pass name and item
\* path, and a dump_mir call the gate rejects changes nothing: no file is
\* created, nothing is written, the hook is not invoked.
C3_RejectedDumpHasNoEffect ==
    /\ \A p \in PassNames \cup StringsUpTo(NameChars, MaxNameLen),
          n \in NodePaths \cup StringsUpTo(NameChars, MaxNameLen) :
          ~dump_enabled(NoFilter, p, n)
    /\ [](filter = NoFilter => (~enabled /\ pc = "idle" /\ files = {} /\ out = <<>>))
    /\ [][(pc = "idle" /\ calls' = calls + 1 /\ ~enabled') =>
              (pc' = "idle" /\ files' = files /\ out' = out)]_vars

\* Two calls were made without a filter.
C3_Witness ==
    /\ filter = NoFilter /\ calls = 2 /\ pc = "idle" /\ pass_name = <<"a">>

MirFiles(fs) == {f \in fs : f[3] = "mir"}

\* C11: a failure of the file creation, of a write or of a hook invocation
\* ends the textual dump at once: the failing step writes nothing, no hook is
\* invoked and nothing is written after it, and the one step left is the
\* return of dump_mir (after the graphviz dump, a file of its own). dump_mir
\* returns normally: a later call starts with nothing of the failure and can
\* run to its end.
C11_FailureEndsOneDump ==
    /\ [](failed => pc = "graphviz")
    /\ [][(~failed /\ failed') =>
             /\ pc' = "graphviz" /\ files' = files
             /\ \/ out' = out
                \/ /\ Len(out') = Len(out) + 1
                   /\ out'[Len(out')].kind = "hook"
                   /\ SubSeq(out', 1, Len(out)) = out]_vars
    /\ [][failed =>
             /\ pc' = "idle"
             /\ MirFiles(files') = MirFiles(files) /\ partial' = partial]_vars
    /\ [](pc = "idle" => (~failed /\ out = <<>>))
    /\ [][(pc = "idle" /\ pc' # "idle") =>
             (pc' = "create" /\ ~failed' /\ out' = <<>> /\ body' \in Bodies)]_vars
    /\ []((pc = "graphviz" /\ ~failed /\ partial # {}) =>
             HooksOf(out) = ExpectedHooks(body))

\* The dump of pass "a" stopped at an Err; the later dump of pass "l" is
\* complete.
C11_Witness ==
    /\ <<<<"a">>, <<"l">>, "mir">> \in partial
    /\ pass_name = <<"l">> /\ pc = "graphviz" /\ ~failed
    /\ HooksOf(out) = ExpectedHooks(body) /\ Len(body) = 2

----------------------------------------------------------------------------
(* SpecAlloc: write_allocations *)

NumAllocIds == 2       \* allocation ids of the session
MaxRelocations == 1    \* most relocations of one allocation
AllocIds == 1..NumAllocIds

\* The loop runs once per seen id; the guard of the loop head stops a loop
\* that runs longer.
MaxIterations == NumAllocIds + 1

RelocationLists == UNION {[1..n -> AllocIds] : n \in 0..MaxRelocations}

Entries ==
    {Entry("None", "-", <<>>), Entry("Function", "-", <<>>),
     Entry("ForeignStatic", "-", <<>>),
     Entry("Static", "Err", <<>>), Entry("Static", "Scalar", <<>>)}
    \cup {Entry("Static", "ByRef", r) : r \in RelocationLists}
    \cup {Entry("Memory", "-", r) : r \in RelocationLists}

\* ConstValue: a scalar pointer into an allocation, a raw scalar, or an
\* allocation (by reference, or the data of a slice) with its relocations.
ConstValue(kind, alloc_id, relocations) ==
    [kind |-> kind, alloc_id |-> alloc_id, relocations |-> relocations]

ConstValues ==
    {ConstValue("Ptr", a, <<>>) : a \in AllocIds}
    \cup {ConstValue("Raw", 0, <<>>)}
    \cup {ConstValue(k, 0, r) : k \in {"ByRef", "Slice"}, r \in RelocationLists}

\* The ty::ConstKind::Value constants the visitor meets in the body: up to two.
ConstLists == {<<>>} \cup {<<c>> : c \in ConstValues} \cup (ConstValues \X ConstValues)

\* The match without the Slice pattern.
alloc_ids_from_const_by_ref_only(val) ==
    IF val.kind = "Ptr" THEN {val.alloc_id}
    ELSE IF val.kind = "ByRef" THEN Range(val.relocations)
    ELSE {}

\* alloc_ids_from_const: once(ptr.alloc_id), empty(), or alloc_ids_from_alloc(alloc)
alloc_ids_from_const(val) ==
    IF val.kind = "Ptr" THEN {val.alloc_id}
    ELSE IF val.kind = "Raw" THEN {}
    ELSE Range(val.relocations)

\* body.visit_with(&mut visitor): self.0.extend(alloc_ids_from_const(val)) for
\* every constant value.
visit_with(consts) == UNION {alloc_ids_from_const(consts[k]) : k \in 1..Len(consts)}

\* tcx.alloc_map belongs to the session and the dump only reads it: an entry is
\* whatever the session holds when the dump first reads the id, and the same
\* from then on.
InitAlloc ==
    /\ filter = NoFilter /\ graphviz = FALSE
    /\ pass_name = <<>> /\ node_path = <<>> /\ enabled = FALSE
    /\ DumpIdle
    /\ BytesIdle
    /\ RestIdle
    /\ wa_pc = "collect"
    /\ body_consts \in ConstLists
    /\ body_ids = {}
    /\ seen = {} /\ todo = <<>> /\ id = 0
    /\ alloc = NotRead
    /\ alloc_map = [a \in AllocIds |-> NotRead]
    /\ lock = FALSE
    /\ w = <<>> /\ w_error = FALSE /\ iterations = 0

\* BTreeSet::iter: ascending.
RECURSIVE Ascending(_)
Ascending(set) ==
    IF set = {} THEN <<>>
    ELSE LET least == CHOOSE x \in set : \A y \in set : x <= y
         IN  <<least>> \o Ascending(set \ {least})

Text(text, a) == [text |-> text, id |-> a]

\* write!(w, ..)?
WriteW(ev, next) ==
    \E ok \in BOOLEAN :
        IF ok THEN w' = Append(w, ev) /\ wa_pc' = next /\ w_error' = w_error
        ELSE w' = w /\ wa_pc' = "err" /\ w_error' = TRUE

\* todo filled from the ids of the body, seen left empty.
CollectAllocIds_seen_empty ==
    /\ wa_pc = "collect"
    /\ body_ids' = visit_with(body_consts) /\ body_consts' = <<>>
    /\ seen' = {}
    /\ todo' = Ascending(visit_with(body_consts))
    /\ wa_pc' = "loop"
    /\ UNCHANGED <<id, alloc, alloc_map, lock, w, w_error, iterations>>
    /\ UNCHANGED <<gateVars, dumpVars, byteVars, restVars>>

\* body.visit_with(&mut visitor); let mut seen = visitor.0;
\* let mut todo = seen.iter().copied().collect();
CollectAllocIds ==
    /\ wa_pc = "collect"
    /\ body_ids' = visit_with(body_consts) /\ body_consts' = <<>>
    /\ seen' = body_ids'
    /\ todo' = Ascending(body_ids')
    /\ wa_pc' = "loop"
    /\ UNCHANGED <<id, alloc, alloc_map, lock, w, w_error, iterations>>
    /\ UNCHANGED <<gateVars, dumpVars, byteVars, restVars>>

\* while let Some(id) = todo.pop() { write!(w, "\n{}", id)?; ..
Pop ==
    /\ wa_pc = "loop" /\ todo # <<>> /\ iterations < MaxIterations
    /\ id' = todo[Len(todo)]
    /\ todo' = SubSeq(todo, 1, Len(todo) - 1)
    /\ iterations' = iterations + 1
    /\ WriteW(Text("id", todo[Len(todo)]), "lookup")
    /\ UNCHANGED <<body_consts, body_ids, seen, alloc, alloc_map, lock>>
    /\ UNCHANGED <<gateVars, dumpVars, byteVars, restVars>>

\* todo.pop() is None: Ok(())
LoopExit ==
    /\ wa_pc = "loop" /\ todo = <<>>
    /\ wa_pc' = "done"
    /\ UNCHANGED <<body_consts, body_ids, seen, todo, id, alloc, alloc_map, lock, w, w_error, iterations>>
    /\ UNCHANGED <<gateVars, dumpVars, byteVars, restVars>>

\* tcx.alloc_map.lock().get(id): the guard is a temporary of the let statement.
LockAndGet ==
    /\ wa_pc = "lookup" /\ ~lock
    /\ lock' = TRUE
    /\ IF alloc_map[id] # NotRead
       THEN alloc' = alloc_map[id] /\ alloc_map' = alloc_map
       ELSE \E e \in Entries : alloc' = e /\ alloc_map' = [alloc_map EXCEPT ![id] = e]
    /\ wa_pc' = "unlock"
    /\ UNCHANGED <<body_consts, body_ids, seen, todo, id, w, w_error, iterations>>
    /\ UNCHANGED <<gateVars, dumpVars, byteVars, restVars>>

\* The guard kept until the end of the match.
DropGuard_kept ==
    /\ wa_pc = "unlock"
    /\ wa_pc' = "match"
    /\ UNCHANGED <<body_consts, body_ids, seen, todo, id, alloc, alloc_map, lock, w, w_error, iterations>>
    /\ UNCHANGED <<gateVars, dumpVars, byteVars, restVars>>

\* End of the let statement: the guard is dropped.
DropGuard ==
    /\ wa_pc = "unlock"
    /\ lock' = FALSE
    /\ wa_pc' = "match"
    /\ UNCHANGED <<body_consts, body_ids, seen, todo, id, alloc, alloc_map, w, w_error, iterations>>
    /\ UNCHANGED <<gateVars, dumpVars, byteVars, restVars>>

\* The None arm, ending in Err though the write succeeded.
PrintDeallocated_err ==
    /\ wa_pc = "match" /\ alloc.kind = "None"
    /\ wa_pc' = "err"
    /\ UNCHANGED <<body_consts, body_ids, seen, todo, id, alloc, alloc_map, lock, w, w_error, iterations>>
    /\ UNCHANGED <<gateVars, dumpVars, byteVars, restVars>>

\* None => write!(w, " (deallocated)")?
PrintDeallocated ==
    /\ wa_pc = "match" /\ alloc.kind = "None"
    /\ WriteW(Text("deallocated", id), "endline")
    /\ UNCHANGED <<body_consts, body_ids, seen, todo, id, alloc, alloc_map, lock, iterations>>
    /\ UNCHANGED <<gateVars, dumpVars, byteVars, restVars>>

\* Some(GlobalAlloc::Function(inst)) => write!(w, " (fn: {})", inst)?
PrintFunction ==
    /\ wa_pc = "match" /\ alloc.kind = "Function"
    /\ WriteW(Text("fn", id), "endline")
    /\ UNCHANGED <<body_consts, body_ids, seen, todo, id, alloc, alloc_map, lock, iterations>>
    /\ UNCHANGED <<gateVars, dumpVars, byteVars, restVars>>

\* Some(GlobalAlloc::Static(did)) => write!(w, " (extern static: {})", ..)?
PrintExternStatic ==
    /\ wa_pc = "match" /\ alloc.kind = "ForeignStatic"
    /\ WriteW(Text("extern static", id), "endline")
    /\ UNCHANGED <<body_consts, body_ids, seen, todo, id, alloc, alloc_map, lock, iterations>>
    /\ UNCHANGED <<gateVars, dumpVars, byteVars, restVars>>

\* Some(GlobalAlloc::Static(did)) if !tcx.is_foreign_item(did): const_eval_poly
\* starts.
MatchStatic ==
    /\ wa_pc = "match" /\ alloc.kind = "Static"
    /\ wa_pc' = "const_eval"
    /\ UNCHANGED <<body_consts, body_ids, seen, todo, id, alloc, alloc_map, lock, w, w_error, iterations>>
    /\ UNCHANGED <<gateVars, dumpVars, byteVars, restVars>>

\* Ok(ConstValue::ByRef { alloc, .. }) => write!(w, " (static: {}, ", ..)?
\* The evaluation reads tcx.alloc_map under its lock.
ConstEvalByRef ==
    /\ wa_pc = "const_eval" /\ alloc.eval = "ByRef" /\ ~lock
    /\ WriteW(Text("static", id), "track")
    /\ UNCHANGED <<body_consts, body_ids, seen, todo, id, alloc, alloc_map, lock, iterations>>
    /\ UNCHANGED <<gateVars, dumpVars, byteVars, restVars>>

\* Ok(_) => span_bug!(..)
ConstEvalBug ==
    /\ wa_pc = "const_eval" /\ alloc.eval = "Scalar" /\ ~lock
    /\ wa_pc' = "bug"
    /\ UNCHANGED <<body_consts, body_ids, seen, todo, id, alloc, alloc_map, lock, w, w_error, iterations>>
    /\ UNCHANGED <<gateVars, dumpVars, byteVars, restVars>>

\* The Err arm taken for a bug.
ConstEvalErr_bug ==
    /\ wa_pc = "const_eval" /\ alloc.eval = "Err" /\ ~lock
    /\ wa_pc' = "bug"
    /\ UNCHANGED <<body_consts, body_ids, seen, todo, id, alloc, alloc_map, lock, w, w_error, iterations>>
    /\ UNCHANGED <<gateVars, dumpVars, byteVars, restVars>>

\* Err(_) => write!(w, " (static: {}, error during initializer evaluation)", ..)?
ConstEvalErr ==
    /\ wa_pc = "const_eval" /\ alloc.eval = "Err" /\ ~lock
    /\ WriteW(Text("static error", id), "endline")
    /\ UNCHANGED <<body_consts, body_ids, seen, todo, id, alloc, alloc_map, lock, iterations>>
    /\ UNCHANGED <<gateVars, dumpVars, byteVars, restVars>>

\* Some(GlobalAlloc::Memory(alloc)) => write!(w, " (")?
PrintMemory ==
    /\ wa_pc = "match" /\ alloc.kind = "Memory"
    /\ WriteW(Text("memory", id), "track")
    /\ UNCHANGED <<body_consts, body_ids, seen, todo, id, alloc, alloc_map, lock, iterations>>
    /\ UNCHANGED <<gateVars, dumpVars, byteVars, restVars>>

\* The loop of the closure without the test of seen.insert.
RECURSIVE track_relocs_unchecked(_, _, _, _)
track_relocs_unchecked(relocations, k, s, t) ==
    IF k = 0 THEN [seen |-> s, todo |-> t]
    ELSE track_relocs_unchecked(relocations, k - 1, s \cup {relocations[k]},
                                Append(t, relocations[k]))

\* for id in alloc_ids_from_alloc(alloc).rev() { if seen.insert(id) { todo.push(id); } }
\* k runs from the last relocation to the first.
RECURSIVE track_relocs(_, _, _, _)
track_relocs(relocations, k, s, t) ==
    IF k = 0 THEN [seen |-> s, todo |-> t]
    ELSE IF relocations[k] \notin s
         THEN track_relocs(relocations, k - 1, s \cup {relocations[k]},
                           Append(t, relocations[k]))
         ELSE track_relocs(relocations, k - 1, s, t)

\* write_allocation_track_relocs(w, alloc)?: the ids of the relocations, then
\* write_allocation.
WriteAllocationTrackRelocs ==
    /\ wa_pc = "track"
    /\ LET tracked == track_relocs(alloc.relocations, Len(alloc.relocations), seen, todo)
       IN  seen' = tracked.seen /\ todo' = tracked.todo
    /\ WriteW(Text("allocation", id), "endline")
    /\ UNCHANGED <<body_consts, body_ids, id, alloc, alloc_map, lock, iterations>>
    /\ UNCHANGED <<gateVars, dumpVars, byteVars, restVars>>

\* writeln!(w)?; the loop goes on.
EndLine ==
    /\ wa_pc = "endline"
    /\ WriteW(Text("newline", id), "loop")
    /\ UNCHANGED <<body_consts, body_ids, seen, todo, id, alloc, alloc_map, lock, iterations>>
    /\ UNCHANGED <<gateVars, dumpVars, byteVars, restVars>>

NextAlloc ==
    \/ CollectAllocIds
    \/ Pop
    \/ LoopExit
    \/ LockAndGet
    \/ DropGuard
    \/ PrintDeallocated
    \/ PrintFunction
    \/ PrintExternStatic
    \/ MatchStatic
    \/ ConstEvalByRef
    \/ ConstEvalBug
    \/ ConstEvalErr
    \/ PrintMemory
    \/ WriteAllocationTrackRelocs
    \/ EndLine

SpecAlloc == InitAlloc /\ [][NextAlloc]_vars

\* The loop runs on one thread, which is not stopped for ever.
SpecAllocFair == SpecAlloc /\ WF_vars(NextAlloc)

\* The ids printed so far, in order: every iteration starts by writing its id.
PrintedIds == SelectSeq(w, LAMBDA e : e.text = "id")

NoDuplicates(seq) == \A k, m \in 1..Len(seq) : seq[k] = seq[m] => k = m

Running == wa_pc \notin {"idle", "collect", "done", "err", "bug"}

\* C4: every id is printed at most once, and exactly once when the loop has
\* run to its end; todo holds no duplicates, every id of todo is in seen, no
\* printed id is on todo; an id gets onto todo only in the step that adds it to
\* seen.
C4_PrintedOnce ==
    /\ [](/\ NoDuplicates(todo)
          /\ Range(todo) \subseteq seen
          /\ NoDuplicates(PrintedIds)
          /\ \A k \in 1..Len(PrintedIds) :
                PrintedIds[k].id \in seen /\ PrintedIds[k].id \notin Range(todo)
          /\ wa_pc = "done" => {PrintedIds[k].id : k \in 1..Len(PrintedIds)} = seen)
    /\ [][\A a \in Range(todo') \ Range(todo) : a \notin seen /\ a \in seen']_vars

\* Both ids were printed, the second one found through the relocation of the
\* first, whose own relocation leads back (A -> B -> A).
C4_Witness ==
    /\ wa_pc = "done" /\ Cardinality(body_ids) = 1 /\ Len(PrintedIds) = 2
    /\ \E a, b \in AllocIds :
          /\ a # b /\ body_ids = {a}
          /\ alloc_map[a].relocations = <<b>> /\ alloc_map[b].relocations = <<a>>

\* C5: the loop of write_allocations ends (with Ok, with the Err of a write, or
\* in span_bug), whatever the relocations; when it ends with Ok, todo is empty
\* and the loop has run once per id of seen.
C5_LoopTerminates ==
    /\ <>(wa_pc \in {"done", "err", "bug"})
    /\ [](wa_pc = "done" => (todo = <<>> /\ iterations = Cardinality(seen)))

\* The loop has ended on an allocation whose relocation points to itself.
C5_Witness ==
    /\ wa_pc = "done" /\ iterations = 1
    /\ \E a \in AllocIds : body_ids = {a} /\ alloc_map[a].relocations = <<a>>

\* C8: the lock of the allocation directory is held for the lookup of one id
\* only: never while the match runs, a static's initializer is evaluated, the
\* relocations are scanned or text is written.
C8_LockOnlyForLookup ==
    /\ lock => wa_pc = "unlock"
    /\ wa_pc \in {"match", "const_eval", "track", "endline", "loop", "done", "err", "bug"}
          => ~lock

\* The initializer of a static is being evaluated.
C8_Witness ==
    /\ wa_pc = "const_eval" /\ alloc.kind = "Static" /\ ~lock

\* C9: an id the directory resolves to nothing gets " (deallocated)", adds
\* nothing to seen or todo and ends the dump only if the write fails: Err is
\* only ever the Err of a write, and a loop that ends with Ok has printed every
\* id of seen.
C9_DeallocatedIsNoError ==
    /\ [][(wa_pc = "match" /\ alloc.kind = "None") =>
             /\ seen' = seen /\ todo' = todo
             /\ \/ wa_pc' = "endline" /\ w' = Append(w, Text("deallocated", id))
                \/ wa_pc' = "err" /\ w_error' /\ w' = w]_vars
    /\ [](wa_pc = "err" => w_error)
    /\ []((wa_pc = "done" /\ \E k \in 1..Len(w) : w[k].text = "deallocated") =>
             /\ ~w_error
             /\ \A a \in seen : \E k \in 1..Len(w) : w[k] = Text("id", a))

\* A deallocated id was printed, another id after it, and the loop ended with Ok.
C9_Witness ==
    /\ wa_pc = "done"
    /\ \E k, m \in 1..Len(w) : k < m /\ w[k].text = "deallocated" /\ w[m].text = "id"

\* C10: a static whose initializer fails to evaluate gets its error text, adds
\* nothing to seen or todo, and the loop goes on with the next id; the abort
\* happens only for an initializer that evaluated to something not by-reference.
C10_EvalErrorIsNoAbort ==
    /\ [][(wa_pc = "const_eval" /\ alloc.eval = "Err") =>
             /\ seen' = seen /\ todo' = todo
             /\ \/ wa_pc' = "endline" /\ w' = Append(w, Text("static error", id))
                \/ wa_pc' = "err" /\ w_error' /\ w' = w]_vars
    /\ [][(wa_pc = "endline" /\ w[Len(w)].text = "static error") =>
             (wa_pc' = "loop" \/ (wa_pc' = "err" /\ w_error'))]_vars
    /\ [](wa_pc = "bug" => (alloc.kind = "Static" /\ alloc.eval = "Scalar"))

\* After the error text of a static, the next id was printed.
C10_Witness ==
    /\ Running
    /\ \E k, m \in 1..Len(w) : k < m /\ w[k].text = "static error" /\ w[m].text = "id"

\* The ids an entry of the directory leads to: the relocation targets of a
\* Memory allocation, or of the allocation the initializer of a static that
\* is not foreign evaluates to.
Targets(a) ==
    IF alloc_map[a].kind = "Memory"
       \/ (alloc_map[a].kind = "Static" /\ alloc_map[a].eval = "ByRef")
    THEN Range(alloc_map[a].relocations) ELSE {}

Closed(X) == body_ids \subseteq X /\ \A a \in X : Targets(a) \subseteq X

\* The least set of ids that holds the ids of the body and is closed.
LeastFixedPoint == {a \in AllocIds : \A X \in SUBSET AllocIds : Closed(X) => a \in X}

\* The ids C16 takes from a constant value.
ConstTargets(consts) ==
    {a \in AllocIds : \E k \in 1..Len(consts) :
        \/ consts[k].kind = "Ptr" /\ consts[k].alloc_id = a
        \/ consts[k].kind \in {"ByRef", "Slice"} /\ a \in Range(consts[k].relocations)}

\* C16: the ids collected from the body are the targets of its scalar
\* pointers and the relocation targets of its by-reference and slice
\* payloads; no id outside the least fixed point of these ids under "a
\* printed Memory allocation, or by-reference initializer of a static that is
\* not foreign, leads to its relocation targets" is ever printed, and when
\* write_allocations returns Ok the printed ids are that fixed point. An id
\* that resolves to a function, a foreign static or nothing adds none.
C16_PrintedIsLeastFixedPoint ==
    /\ [][wa_pc = "collect" => body_ids' = ConstTargets(body_consts)]_vars
    /\ []({PrintedIds[k].id : k \in 1..Len(PrintedIds)} \subseteq LeastFixedPoint)
    /\ [](wa_pc = "done" =>
             {PrintedIds[k].id : k \in 1..Len(PrintedIds)} = LeastFixedPoint)
    /\ [][(wa_pc = "match" /\ alloc.kind \in {"None", "Function", "ForeignStatic"}) =>
             seen' = seen /\ todo' = todo]_vars

\* The constants of the body lead to id 1, a static whose by-reference
\* initializer points to id 2, a function: both are printed.
C16_Witness ==
    /\ wa_pc = "done" /\ body_ids = {1}
    /\ alloc_map[1] = Entry("Static", "ByRef", <<2>>)
    /\ alloc_map[2].kind = "Function"
    /\ Len(PrintedIds) = 2

----------------------------------------------------------------------------
(* SpecBytes: write_allocation_bytes, write_allocation_newline,
   write_allocation_endline *)

MaxSize == 33          \* largest alloc.size
MaxRelocs == 1         \* most relocations of the allocation

BYTES_PER_LINE == 16

PointerSizes == {2, 4, 8}

\* Lengths of the text format!("{}+{}", target_id, offset): a short one, one
\* that fits the column of a 4-byte pointer, one too long for every column.
TargetLens == {3, 8, 22}

\* Up to n relocation offsets of an allocation of sz bytes: each relocation lies
\* inside the allocation and no two overlap.
RECURSIVE OffsetSets(_, _, _)
OffsetSets(n, sz, p) ==
    IF n = 0 THEN {{}}
    ELSE LET fewer == OffsetSets(n - 1, sz, p)
         IN  fewer \cup
             {r \cup {o} : <<r, o>> \in
                 {ro \in fewer \X (0..(sz - p)) :
                     \A x \in ro[1] : x + p <= ro[2] \/ ro[2] + p <= x}}

\* The undefined bytes of the allocation: every third byte.
UndefMask(sz) == {o \in 0..(sz - 1) : o % 3 = 1}

\* The bytes of the allocation.
ByteAt(o) == (o * 37 + 65) % 256

InitBytes ==
    /\ filter = NoFilter /\ graphviz = FALSE
    /\ pass_name = <<>> /\ node_path = <<>> /\ enabled = FALSE
    /\ DumpIdle
    /\ AllocIdle
    /\ RestIdle
    /\ wb_pc = "start"
    /\ size \in 1..MaxSize
    /\ ptr_size \in PointerSizes
    /\ reloc_offsets \in OffsetSets(MaxRelocs, size, ptr_size)
    /\ undef_mask = UndefMask(size)
    /\ i = 0 /\ line_start = 0 /\ ascii = <<>> /\ line = NoLine /\ lines = <<>>

\* One hex-column token and one character of the ASCII column.
Tok(kind, width) == [kind |-> kind, width |-> width]
Ch(kind, c) == [kind |-> kind, c |-> c]

\* The token of a relocation, or one of the two parts of a relocation that runs
\* over the end of a line: its characters (width), the length of
\* format!("{}+{}", target_id, offset) (len), and whether this part holds that
\* text (text) or only the fill between its bracket and the line break.
RelocTok(kind, width, len, text) ==
    [kind |-> kind, width |-> width, len |-> len, text |-> text]

Max(a, b) == IF a >= b THEN a ELSE b

\* {0:c^1$}: the text centred in width characters, whole when it is longer.
Centred(len, width) == Max(len, width)

\* alloc.size.bytes_usize().saturating_sub(BYTES_PER_LINE) > 0, taken as a
\* quotient.
has_address_column_quotient(sz) == sz \div BYTES_PER_LINE > 0

\* num_lines > 0
has_address_column(sz) == Max(sz - BYTES_PER_LINE, 0) > 0

\* The start of a line: the prefix, and the address column when there is one
\* (address -1: none), zero-padded to pos_width digits.
Header(address) == [address |-> address, hex |-> <<>>]

\* write_allocation_endline: the padding, then the ASCII column.
EndedLine(ln, asc) ==
    [address |-> ln.address, hex |-> ln.hex,
     pad |-> BYTES_PER_LINE - Len(asc), ascii |-> asc]

RECURSIVE PushN(_, _, _)
PushN(asc, c, n) == IF n <= 0 THEN asc ELSE PushN(Append(asc, c), c, n - 1)

RelocMark == Ch("reloc", 0)

\* The pushes before the line break, one too many.
remainder_ascii_one_more(asc, remainder) ==
    PushN(Append(asc, RelocMark), RelocMark, remainder)

\* ascii.push(..); for _ in 0..remainder.bytes() - 1 { ascii.push(..); }
remainder_ascii(asc, remainder) ==
    PushN(Append(asc, RelocMark), RelocMark, remainder - 1)

\* for _ in 0..overflow.bytes() - 1 { ascii.push(..); } ascii.push(..);
overflow_ascii(asc, overflow) ==
    Append(PushN(asc, RelocMark, overflow - 1), RelocMark)

\* ascii.push(..); for _ in 0..ptr_size.bytes() - 2 { ascii.push(..); } ascii.push(..);
in_line_ascii(asc, p) ==
    Append(PushN(Append(asc, RelocMark), RelocMark, p - 2), RelocMark)

\* format!("{}", n).len()
RECURSIVE DecimalDigits(_)
DecimalDigits(n) == IF n < 10 THEN 1 ELSE 1 + DecimalDigits(n \div 10)

\* The text is never followed by " ({} ptr bytes)".
oversized_ptr_never_appends(len, width, p) == len

\* oversized_ptr: " ({} ptr bytes)" is appended to a target longer than width;
\* the result is the new length of target.
oversized_ptr(len, width, p) ==
    IF len > width THEN len + 2 + DecimalDigits(p) + 11 ELSE len

\* The text goes to the next line also when the two parts are equally wide.
fits_next_line_on_tie(overflow_width, remainder_width, len) ==
    overflow_width >= remainder_width /\ overflow_width >= len

\* if overflow_width > remainder_width && overflow_width >= target.len()
fits_next_line(overflow_width, remainder_width, len) ==
    overflow_width > remainder_width /\ overflow_width >= len

\* if i != line_start { write!(w, " ")?; }
WithSpace(hex) == IF i # line_start THEN Append(hex, Tok("space", 1)) ELSE hex

\* The end of an iteration: a new line header if the line is full and bytes
\* remain.
EndIteration(next_i, hex, asc) ==
    /\ i' = next_i
    /\ IF next_i = line_start + BYTES_PER_LINE /\ next_i # size
       THEN /\ lines' = Append(lines, EndedLine([line EXCEPT !.hex = hex], asc))
            /\ line_start' = line_start + BYTES_PER_LINE
            /\ line' = Header(line_start + BYTES_PER_LINE)
            /\ ascii' = <<>>
       ELSE /\ lines' = lines
            /\ line_start' = line_start
            /\ line' = [line EXCEPT !.hex = hex]
            /\ ascii' = asc

\* The first line header.
BytesStart ==
    /\ wb_pc = "start"
    /\ line' = Header(IF has_address_column(size) THEN 0 ELSE -1)
    /\ i' = 0 /\ line_start' = 0 /\ ascii' = <<>>
    /\ wb_pc' = "loop"
    /\ UNCHANGED <<size, ptr_size, reloc_offsets, undef_mask, lines>>
    /\ UNCHANGED <<gateVars, dumpVars, allocVars, restVars>>

\* A relocation that starts in the current line and ends in the next one.
RelocationStraddling ==
    /\ wb_pc = "loop" /\ i < size
    /\ i \in reloc_offsets
    /\ (i - line_start) + ptr_size > BYTES_PER_LINE
    /\ \E target_len \in TargetLens :
        LET remainder == BYTES_PER_LINE - (i - line_start)
            overflow == ptr_size - remainder
            remainder_width == remainder * 3 - 2
            overflow_width == (overflow - 1) * 3 + 1
            before == remainder_ascii(ascii, remainder)
            in_next == fits_next_line(overflow_width, remainder_width, target_len)
            target == IF in_next THEN target_len
                      ELSE oversized_ptr(target_len, remainder_width, ptr_size)
            first == IF in_next
                     THEN RelocTok("remainder", 1 + Centred(0, remainder_width),
                                   target_len, FALSE)
                     ELSE RelocTok("remainder", 1 + Centred(target, remainder_width),
                                   target_len, TRUE)
            second == IF in_next
                      THEN RelocTok("overflow", Centred(target, overflow_width) + 1,
                                    target_len, TRUE)
                      ELSE RelocTok("overflow", Centred(0, overflow_width) + 1,
                                    target_len, FALSE)
        IN  /\ lines' = Append(lines,
                   EndedLine([line EXCEPT !.hex = Append(WithSpace(line.hex), first)], before))
            /\ line_start' = line_start + BYTES_PER_LINE
            /\ line' = [Header(line_start + BYTES_PER_LINE) EXCEPT !.hex = <<second>>]
            /\ ascii' = overflow_ascii(<<>>, overflow)
            /\ i' = i + ptr_size
    /\ UNCHANGED <<wb_pc, size, ptr_size, reloc_offsets, undef_mask>>
    /\ UNCHANGED <<gateVars, dumpVars, allocVars, restVars>>

\* A relocation that starts and ends in the current line.
RelocationInLine ==
    /\ wb_pc = "loop" /\ i < size
    /\ i \in reloc_offsets
    /\ (i - line_start) + ptr_size <= BYTES_PER_LINE
    /\ \E target_len \in TargetLens :
        LET relocation_width == (ptr_size - 1) * 3
            target == oversized_ptr(target_len, relocation_width, ptr_size)
        IN  EndIteration(i + ptr_size,
                         Append(WithSpace(line.hex),
                                RelocTok("reloc", 1 + Centred(target, relocation_width) + 1,
                                         target_len, TRUE)),
                         in_line_ascii(ascii, ptr_size))
    /\ UNCHANGED <<wb_pc, size, ptr_size, reloc_offsets, undef_mask>>
    /\ UNCHANGED <<gateVars, dumpVars, allocVars, restVars>>

\* A defined byte: two hex digits; the character, or '.' for a control
\* character or a byte from 0x80.
DefinedByte ==
    /\ wb_pc = "loop" /\ i < size
    /\ i \notin reloc_offsets /\ i \notin undef_mask
    /\ LET c == ByteAt(i)
           is_ascii_control == c <= 31 \/ c = 127
       IN  EndIteration(i + 1, Append(WithSpace(line.hex), Tok("byte", 2)),
                        Append(ascii, IF is_ascii_control \/ c >= 128
                                      THEN Ch("byte", 46) ELSE Ch("byte", c)))
    /\ UNCHANGED <<wb_pc, size, ptr_size, reloc_offsets, undef_mask>>
    /\ UNCHANGED <<gateVars, dumpVars, allocVars, restVars>>

\* An undefined byte: "__".
UndefinedByte ==
    /\ wb_pc = "loop" /\ i < size
    /\ i \notin reloc_offsets /\ i \in undef_mask
    /\ EndIteration(i + 1, Append(WithSpace(line.hex), Tok("undef", 2)),
                    Append(ascii, Ch("undef", 0)))
    /\ UNCHANGED <<wb_pc, size, ptr_size, reloc_offsets, undef_mask>>
    /\ UNCHANGED <<gateVars, dumpVars, allocVars, restVars>>

\* After the loop: write_allocation_endline(w, &ascii)?; Ok(())
BytesEnd ==
    /\ wb_pc = "loop" /\ ~(i < size)
    /\ lines' = Append(lines, EndedLine(line, ascii))
    /\ wb_pc' = "done"
    /\ UNCHANGED <<size, ptr_size, reloc_offsets, undef_mask, i, line_start, ascii, line>>
    /\ UNCHANGED <<gateVars, dumpVars, allocVars, restVars>>

\* A write of the current step returns Err, and so does write_allocation_bytes:
\* its locals are gone; lines keeps the lines ended before (what the sink holds
\* of the line begun is not a line).
BytesWriteFails ==
    /\ wb_pc \in {"start", "loop"}
    /\ wb_pc' = "err"
    /\ i' = 0 /\ line_start' = 0 /\ ascii' = <<>> /\ line' = NoLine
    /\ UNCHANGED <<size, ptr_size, reloc_offsets, undef_mask, lines>>
    /\ UNCHANGED <<gateVars, dumpVars, allocVars, restVars>>

NextBytes ==
    \/ BytesStart
    \/ BytesWriteFails
    \/ RelocationStraddling
    \/ RelocationInLine
    \/ DefinedByte
    \/ UndefinedByte
    \/ BytesEnd

SpecBytes == InitBytes /\ [][NextBytes]_vars

\* The relocation that covers the byte at offset o, if any.
Covered(o) == \E r \in reloc_offsets : r <= o /\ o < r + ptr_size

\* What the ASCII column shows for the byte at offset o.
ExpectedChar(o) ==
    IF Covered(o) THEN "reloc"
    ELSE IF o \in undef_mask THEN "undef" ELSE "byte"

\* The bytes of the k-th ended line (k from 1): 16, or what is left of the
\* allocation on the line write_allocation_bytes ends with.
BytesOfLine(k) ==
    IF wb_pc = "done" /\ k = Len(lines) THEN size - BYTES_PER_LINE * (k - 1)
    ELSE BYTES_PER_LINE

\* C6: the ASCII column of every line has one character per byte of the line,
\* a relocation mark for exactly the bytes a relocation covers (remainder of
\* them before a line break, overflow after it); the ASCII buffer never has
\* more than 16 characters and the padding 16 - length is never negative.
C6_AsciiOnePerByte ==
    /\ wb_pc = "loop" => (Len(ascii) = i - line_start /\ Len(ascii) <= BYTES_PER_LINE)
    /\ \A k \in 1..Len(lines) :
          /\ Len(lines[k].ascii) = BytesOfLine(k)
          /\ lines[k].pad = BYTES_PER_LINE - BytesOfLine(k)
          /\ lines[k].pad >= 0
          /\ \A c \in 1..Len(lines[k].ascii) :
                lines[k].ascii[c].kind = ExpectedChar(BYTES_PER_LINE * (k - 1) + c - 1)

\* The dump is complete and a relocation ran over the end of the first line.
C6_Witness ==
    /\ wb_pc = "done" /\ Len(lines) >= 2
    /\ \E r \in reloc_offsets : r < BYTES_PER_LINE /\ r + ptr_size > BYTES_PER_LINE

\* C7: an allocation of S >= 1 bytes gets ceil(S / 16) lines; for S <= 16 the
\* line has no address column, for S > 16 the k-th line (from 0) has the
\* address 16 * k; line_start is always a multiple of 16.
C7_LinesAndAddresses ==
    /\ line_start % BYTES_PER_LINE = 0
    /\ wb_pc = "loop" => line.address = (IF size <= BYTES_PER_LINE THEN -1 ELSE line_start)
    /\ \A k \in 1..Len(lines) :
          lines[k].address = (IF size <= BYTES_PER_LINE THEN -1 ELSE BYTES_PER_LINE * (k - 1))
    /\ wb_pc = "done" => Len(lines) = (size + BYTES_PER_LINE - 1) \div BYTES_PER_LINE

\* Three lines, with a relocation over the end of one of them.
C7_Witness ==
    /\ wb_pc = "done" /\ Len(lines) = 3 /\ lines[3].address = 32
    /\ \E r \in reloc_offsets :
          r \div BYTES_PER_LINE # (r + ptr_size - 1) \div BYTES_PER_LINE

\* The tokens written so far for relocations that lie within one line.
InLineRelocToks ==
    {lines[k].hex[t] : <<k, t>> \in
        {kt \in (1..Len(lines)) \X (1..(3 * BYTES_PER_LINE)) : kt[2] <= Len(lines[kt[1]].hex)}}
    \cup
    {line.hex[t] : t \in 1..Len(line.hex)}

InLineRelocs == {tok \in InLineRelocToks : tok.kind = "reloc"}

\* Len(" ({} ptr bytes)") for the pointer size of the target
SuffixLen == 2 + DecimalDigits(ptr_size) + 11

\* C17 as stated: the token of every relocation within one line has exactly
\* 3 * ptr_size - 1 characters, whatever the length of its text.
C17_TokenFillsPointerCells ==
    \A tok \in InLineRelocs : tok.width = 3 * ptr_size - 1

\* C17, amended: the token of a relocation within one line has exactly
\* 3 * ptr_size - 1 characters when its text has at most 3 * (ptr_size - 1);
\* a longer text is written whole and followed by " (N ptr bytes)", so the
\* token has the two brackets, the text and the suffix, and is more than one
\* suffix wider than the cells of the pointer. The ASCII column has ptr_size
\* marks either way.
C17_TokenFillsCellsUnlessOversized ==
    /\ \A tok \in InLineRelocs :
          IF tok.len <= 3 * (ptr_size - 1)
          THEN tok.width = 3 * ptr_size - 1
          ELSE /\ tok.width = 1 + tok.len + SuffixLen + 1
               /\ tok.width > 3 * ptr_size - 1 + SuffixLen
    /\ \A k \in 1..Len(lines) :
          \A r \in reloc_offsets :
              (r \div BYTES_PER_LINE = k - 1 /\ (r + ptr_size - 1) \div BYTES_PER_LINE = k - 1
                 /\ (r + ptr_size <= i \/ wb_pc = "done")) =>
                  \A c \in ((r % BYTES_PER_LINE) + 1)..((r % BYTES_PER_LINE) + ptr_size) :
                      lines[k].ascii[c] = RelocMark

\* A complete dump with a relocation of four bytes within the first line whose
\* text has 22 characters: the token has 38.
C17_Witness ==
    /\ wb_pc = "done" /\ ptr_size = 4
    /\ \E tok \in InLineRelocs : tok.len = 22 /\ tok.width = 38
    /\ \E r \in reloc_offsets : r + ptr_size <= BYTES_PER_LINE

\* The relocations written so far that run over the end of a line, each with
\* the part before the line break (the last token of its line) and the part
\* after it (the first token of the next line).
Straddles ==
    {[r |-> r,
      first |-> lines[(r \div BYTES_PER_LINE) + 1].hex[Len(lines[(r \div BYTES_PER_LINE) + 1].hex)],
      second |-> IF Len(lines) >= (r \div BYTES_PER_LINE) + 2
                 THEN lines[(r \div BYTES_PER_LINE) + 2].hex[1]
                 ELSE line.hex[1]] :
        r \in {x \in reloc_offsets :
                  /\ (x % BYTES_PER_LINE) + ptr_size > BYTES_PER_LINE
                  /\ Len(lines) >= (x \div BYTES_PER_LINE) + 1
                  /\ (Len(lines) >= (x \div BYTES_PER_LINE) + 2 \/ line.hex # <<>>)}}

remainder_of(r) == BYTES_PER_LINE - (r % BYTES_PER_LINE)
remainder_width_of(r) == 3 * remainder_of(r) - 2
overflow_width_of(r) == 3 * ((ptr_size - remainder_of(r)) - 1) + 1

\* C18 as stated: of the two parts of a relocation that runs over the end of a
\* line, exactly one holds the text and the other is an empty bracket; the
\* part that holds the text is wide enough for it; when both parts are wide
\* enough, the text is in the part on the earlier line.
C18_TokenOnSideThatHoldsIt ==
    \A s \in Straddles :
        LET rw == remainder_width_of(s.r)
            ow == overflow_width_of(s.r)
            len == s.first.len
        IN  /\ s.first.text # s.second.text
            /\ s.first.text => (len <= rw /\ s.first.width = 1 + rw)
            /\ s.second.text => (len <= ow /\ s.second.width = ow + 1)
            /\ ~s.first.text => s.first.width = 1 + rw
            /\ ~s.second.text => s.second.width = ow + 1
            /\ (len <= rw /\ len <= ow) => s.first.text

\* C18, amended: exactly one part holds the text and the other is an empty
\* bracket. The text is on the later line exactly when overflow_width is
\* greater than remainder_width and at least the length of the text; in every
\* other case it is on the earlier line, followed by " (N ptr bytes)" when it
\* is longer than remainder_width, and only then is a part wider than its
\* cells. So a text that only one part can hold is in that part, a text that
\* both can hold is in the wider part (the earlier one when they are equally
\* wide), and a text that neither can hold is on the earlier line.
C18_TokenOnLaterLineIffWiderAndFits ==
    \A s \in Straddles :
        LET rw == remainder_width_of(s.r)
            ow == overflow_width_of(s.r)
            len == s.first.len
        IN  /\ s.first.text # s.second.text
            /\ s.second.len = len
            /\ s.second.text <=> (ow > rw /\ len <= ow)
            /\ s.second.width = ow + 1
            /\ s.first.width = (IF s.first.text /\ len > rw
                                THEN 1 + len + SuffixLen ELSE 1 + rw)
            /\ (len <= rw /\ len > ow) => s.first.text
            /\ (len > rw /\ len <= ow) => s.second.text
            /\ (len <= rw /\ len <= ow) => (s.second.text <=> ow > rw)
            /\ (len > rw /\ len > ow) => s.first.text

\* A complete dump of two lines with a relocation of four bytes at offset 15
\* (one byte before the line break, three after it) and a text of 8
\* characters, which neither part can hold: the text is on the first line.
C18_Witness ==
    /\ wb_pc = "done" /\ ptr_size = 4 /\ reloc_offsets = {15}
    /\ \E s \in Straddles :
          /\ s.first.len = 8 /\ s.first.text /\ ~s.second.text
          /\ s.first.width = 23 /\ s.second.width = 8

----------------------------------------------------------------------------
(* SpecPath: dump_path *)

MaxPromoted == 1      \* largest index of a promoted body
MaxPathCalls == 2     \* most dump_path calls of a behaviour

Str(text) == [k \in 1..Len(text) |-> text[k]]

\* source.promoted and pass_num: Option values.
NoPromoted == [some |-> FALSE, id |-> 0]
SomePromoted(n) == [some |-> TRUE, id |-> n]
NoText == [some |-> FALSE, text |-> <<>>]
SomeText(text) == [some |-> TRUE, text |-> text]

\* format!("{}", n) of an index
RECURSIVE Decimal(_)
Decimal(n) ==
    LET digit == <<"0", "1", "2", "3", "4", "5", "6", "7", "8", "9">>[(n % 10) + 1]
    IN  IF n < 10 THEN <<digit>> ELSE Append(Decimal(n \div 10), digit)

\* The texts the Display arguments and the item give.
Promoteds == {NoPromoted} \cup {SomePromoted(n) : n \in 0..MaxPromoted}
PassNums == {NoText, SomeText(<<"0">>), SomeText(<<"1">>)}
\* DropGlue(_, Some(ty)): ty.to_string(); NoText for every other instance.
DropGlueTys == {NoText, SomeText(<<"V", "<", "u", ">">>), SomeText(<<"&", " ", "a", ":", ":", "T">>)}
Extensions == {<<"m", "i", "r">>, <<"d", "o", "t">>}

DumpPathArgs ==
    [called : {TRUE},
     extension : Extensions,
     pass_num : PassNums,
     pass_name : {<<"n", "l", "l">>},
     disambiguator : {<<"0">>},
     promoted : Promoteds,
     item_name : {<<"m", "a", "i", "n">>},
     drop_glue_ty : DropGlueTys,
     dump_mir_exclude_pass_number : BOOLEAN,
     dump_mir_dir : {<<"m", "i", "r", "_", "d", "u", "m", "p">>}]

InitPath ==
    /\ filter = NoFilter /\ graphviz = FALSE
    /\ pass_name = <<>> /\ node_path = <<>> /\ enabled = FALSE
    /\ DumpIdle
    /\ AllocIdle
    /\ BytesIdle
    /\ PathIdle /\ ScopeIdle /\ FsIdle

\* match source.promoted { Some(id) => format!("-{:?}", id), None => String::new() }
\* (the Debug text of the index: its digits)
promotion_id(promoted) ==
    IF promoted.some THEN <<"-">> \o Decimal(promoted.id) ELSE <<>>

\* The pass number segment whatever the flag says.
pass_num_text_flag_ignored(exclude_pass_number, num) ==
    IF ~num.some THEN Str(<<".", "-", "-", "-", "-", "-", "-", "-">>)
    ELSE <<".">> \o num.text

\* The pass number segment, empty under dump_mir_exclude_pass_number.
pass_num_text(exclude_pass_number, num) ==
    IF exclude_pass_number THEN <<>>
    ELSE IF ~num.some THEN Str(<<".", "-", "-", "-", "-", "-", "-", "-">>)
         ELSE <<".">> \o num.text

\* ty.to_string().chars().filter_map(..): ' ' is dropped, ':' '<' '>' become '_'.
RECURSIVE filter_map(_)
filter_map(chars) ==
    IF chars = <<>> THEN <<>>
    ELSE LET c == Head(chars)
             rest == filter_map(Tail(chars))
         IN  IF c = " " THEN rest
             ELSE IF c \in {":", "<", ">"} THEN <<"_">> \o rest
             ELSE <<c>> \o rest

shim_disambiguator(ty) ==
    IF ty.some THEN <<".">> \o filter_map(ty.text) ELSE <<>>

\* format!("rustc.{}{}{}{}.{}.{}.{}", ..) pushed onto the dump directory.
dump_path(a) ==
    [dir |-> a.dump_mir_dir,
     file_name |->
        <<"r", "u", "s", "t", "c", ".">> \o a.item_name \o shim_disambiguator(a.drop_glue_ty)
        \o promotion_id(a.promoted)
        \o pass_num_text(a.dump_mir_exclude_pass_number, a.pass_num)
        \o <<".">> \o a.pass_name \o <<".">> \o a.disambiguator \o <<".">> \o a.extension]

\* One call of dump_path.
DumpPath ==
    /\ dp_calls < MaxPathCalls
    /\ \E a \in DumpPathArgs :
          /\ dp_args' = a
          /\ dp_path' = dump_path(a)
    /\ dp_prev_args' = dp_args /\ dp_prev_path' = dp_path
    /\ dp_calls' = dp_calls + 1
    /\ UNCHANGED <<gateVars, dumpVars, allocVars, byteVars, scopeVars, fsVars>>

NextPath == DumpPath

SpecPath == InitPath /\ [][NextPath]_vars

IsSuffix(s, t) == Len(s) <= Len(t) /\ SubSeq(t, Len(t) - Len(s) + 1, Len(t)) = s

\* <promotion><passnum>.<pass_name>.<disambiguator>.<extension> as C12 states it.
NameTail(a) ==
    (IF a.promoted.some THEN <<"-">> \o Decimal(a.promoted.id) ELSE <<>>)
    \o (IF a.dump_mir_exclude_pass_number THEN <<>>
        ELSE IF a.pass_num.some THEN <<".">> \o a.pass_num.text
        ELSE <<".", "-", "-", "-", "-", "-", "-", "-">>)
    \o <<".">> \o a.pass_name \o <<".">> \o a.disambiguator \o <<".">> \o a.extension

NameHead(a) == <<"r", "u", "s", "t", "c", ".">> \o a.item_name

\* The calls differ in source.promoted and in nothing else.
DifferOnlyInPromoted(a, b) ==
    /\ a.called /\ b.called
    /\ a.promoted # b.promoted
    /\ [a EXCEPT !.promoted = b.promoted] = b

----------------------------------------------------------------------------
(* SpecScope: write_mir_intro, write_scope_tree *)

MaxScopes == 3        \* most source scopes of a body

INDENT_len == 4       \* INDENT.len()
OUTERMOST_SOURCE_SCOPE == 0
NoParent == -1        \* parent_scope: None

\* Bodies with up to MaxScopes scopes, every parent pointer a scope of the
\* body or None, well-formed or not; one debug-info record; the locals _0 and
\* _1, _1 an argument or not.
InitScope ==
    /\ FsIdle
    /\ filter = NoFilter /\ graphviz = FALSE
    /\ pass_name = <<>> /\ node_path = <<>> /\ enabled = FALSE
    /\ DumpIdle
    /\ AllocIdle
    /\ BytesIdle
    /\ PathIdle
    /\ st_pc = "intro"
    /\ \E n \in 1..MaxScopes :
          /\ source_scopes \in [1..n -> {NoParent} \cup (0..(n - 1))]
          /\ var_debug_info \in [1..1 -> 0..(n - 1)]
          /\ local_decls \in [1..2 -> 0..(n - 1)]
    /\ arg_count \in 0..1
    /\ scope_tree = <<>> /\ stack = <<>> /\ st_out = <<>>

Scopes == 0..(Len(source_scopes) - 1)
parent_scope(k) == source_scopes[k + 1]

\* One line of the scope tree: a debug-info record or a local (item: its
\* index), the opening or the closing line of a child scope.
Line(kind, scope, indent, item) == [kind |-> kind, scope |-> scope, indent |-> indent, item |-> item]

\* One call of write_scope_tree: its arguments, and the position of its loop
\* over the children.
Frame(parent, depth) == [parent |-> parent, depth |-> depth, child |-> 1]

\* The assertion of write_mir_intro left out.
assert_root_skipped(index) == TRUE

\* assert_eq!(index, OUTERMOST_SOURCE_SCOPE.index()), for a scope without parent
assert_root(index) == index = OUTERMOST_SOURCE_SCOPE

\* scope_tree.entry(parent).or_default().push(index), in the order of the scan
children_of(parent) ==
    LET F[k \in 0..Len(source_scopes)] ==
            IF k = 0 THEN <<>>
            ELSE IF parent_scope(k - 1) = parent THEN Append(F[k - 1], k - 1) ELSE F[k - 1]
    IN  F[Len(source_scopes)]

\* write_mir_intro: the scan that builds scope_tree and asserts that a scope
\* without a parent is the root; then write_scope_tree(.., OUTERMOST_SOURCE_SCOPE, 1).
WriteMirIntroScopes ==
    /\ st_pc = "intro"
    /\ IF \E index \in Scopes : parent_scope(index) = NoParent /\ ~assert_root(index)
       THEN st_pc' = "panic" /\ UNCHANGED <<scope_tree, stack>>
       ELSE /\ scope_tree' = [k \in 1..Len(source_scopes) |-> children_of(k - 1)]
            /\ stack' = <<Frame(OUTERMOST_SOURCE_SCOPE, 1)>>
            /\ st_pc' = "decls"
    /\ UNCHANGED <<source_scopes, var_debug_info, local_decls, arg_count, st_out>>
    /\ UNCHANGED <<gateVars, dumpVars, allocVars, byteVars, pathVars, fsVars>>

\* The scope test of both loops, always passed.
declared_in_any(scope, parent) == TRUE

\* if .. source_info.scope != parent { continue; }
declared_in(scope, parent) == scope = parent

\* The lines of the declarations of one call: the debug-info records, then
\* the locals that are no arguments.
RECURSIVE debug_lines(_, _, _)
debug_lines(k, parent, indent) ==
    IF k > Len(var_debug_info) THEN <<>>
    ELSE (IF declared_in(var_debug_info[k], parent)
          THEN <<Line("debug", parent, indent, k)>> ELSE <<>>)
         \o debug_lines(k + 1, parent, indent)

RECURSIVE local_lines(_, _, _)
local_lines(local, parent, indent) ==
    IF local >= Len(local_decls) THEN <<>>
    ELSE (IF ~(local \in 1..arg_count) /\ declared_in(local_decls[local + 1], parent)
          THEN <<Line("let", parent, indent, local)>> ELSE <<>>)
         \o local_lines(local + 1, parent, indent)

Top == stack[Len(stack)]

\* write_scope_tree up to the loop over the children.
WriteDecls ==
    /\ st_pc = "decls"
    /\ LET indent == Top.depth * INDENT_len
       IN  st_out' = st_out \o debug_lines(1, Top.parent, indent)
                            \o local_lines(0, Top.parent, indent)
    /\ st_pc' = "children"
    /\ UNCHANGED <<source_scopes, var_debug_info, local_decls, arg_count, scope_tree, stack>>
    /\ UNCHANGED <<gateVars, dumpVars, allocVars, byteVars, pathVars, fsVars>>

\* for &child in children: the assertion, the line "scope <child> {" and the
\* call for the child. A child that has a call in progress already is entered
\* again with every turn of the same calls: the recursion has no end.
OpenChild ==
    /\ st_pc = "children"
    /\ Top.child <= Len(scope_tree[Top.parent + 1])
    /\ LET child == scope_tree[Top.parent + 1][Top.child]
       IN  IF parent_scope(child) # Top.parent
           THEN st_pc' = "panic" /\ UNCHANGED <<stack, st_out>>
           ELSE /\ st_out' = Append(st_out, Line("open", child, Top.depth * INDENT_len, -1))
                /\ IF \E k \in 1..Len(stack) : stack[k].parent = child
                   THEN st_pc' = "unbounded" /\ stack' = stack
                   ELSE /\ stack' = Append(stack, Frame(child, Top.depth + 1))
                        /\ st_pc' = "decls"
    /\ UNCHANGED <<source_scopes, var_debug_info, local_decls, arg_count, scope_tree>>
    /\ UNCHANGED <<gateVars, dumpVars, allocVars, byteVars, pathVars, fsVars>>

\* Ok(()) of write_scope_tree: the caller writes the closing line of the child
\* and goes on with its next child; write_mir_intro goes on after the root.
ReturnOk ==
    /\ st_pc = "children"
    /\ Top.child > Len(scope_tree[Top.parent + 1])
    /\ IF Len(stack) = 1
       THEN stack' = <<>> /\ st_pc' = "done" /\ st_out' = st_out
       ELSE LET caller == stack[Len(stack) - 1]
            IN  /\ st_out' = Append(st_out, Line("close", Top.parent,
                                                  caller.depth * INDENT_len, -1))
                /\ stack' = Append(SubSeq(stack, 1, Len(stack) - 2),
                                   [caller EXCEPT !.child = caller.child + 1])
                /\ st_pc' = "children"
    /\ UNCHANGED <<source_scopes, var_debug_info, local_decls, arg_count, scope_tree>>
    /\ UNCHANGED <<gateVars, dumpVars, allocVars, byteVars, pathVars, fsVars>>

\* A writeln! returns Err: every call in progress returns it.
ScopeWriteFails ==
    /\ st_pc \in {"decls", "children"}
    /\ st_pc' = "err" /\ stack' = <<>>
    /\ UNCHANGED <<source_scopes, var_debug_info, local_decls, arg_count, scope_tree, st_out>>
    /\ UNCHANGED <<gateVars, dumpVars, allocVars, byteVars, pathVars, fsVars>>

NextScope ==
    \/ WriteMirIntroScopes
    \/ WriteDecls
    \/ OpenChild
    \/ ReturnOk
    \/ ScopeWriteFails

SpecScope == InitScope /\ [][NextScope]_vars

\* The scope m parent steps above k (NoParent above a scope without parent).
RECURSIVE Up(_, _)
Up(k, m) == IF m = 0 \/ k = NoParent THEN k ELSE Up(parent_scope(k), m - 1)

OnCycle(k) == \E m \in 1..Len(source_scopes) : Up(k, m) = k

\* A single root, scope 0, that every scope reaches by its parent pointers.
WellFormed ==
    /\ parent_scope(OUTERMOST_SOURCE_SCOPE) = NoParent
    /\ \A k \in Scopes \ {OUTERMOST_SOURCE_SCOPE} :
          /\ parent_scope(k) # NoParent
          /\ \E m \in 1..Len(source_scopes) : Up(k, m) = OUTERMOST_SOURCE_SCOPE

\* The depth write_scope_tree is called with for scope k of a well-formed body.
RECURSIVE Depth(_)
Depth(k) == IF k = OUTERMOST_SOURCE_SCOPE THEN 1 ELSE 1 + Depth(parent_scope(k))

\* The scopes whose braces are open after the first p lines, innermost last.
OpenScopes(p) ==
    LET F[q \in 0..p] ==
            IF q = 0 THEN <<>>
            ELSE IF st_out[q].kind = "open" THEN Append(F[q - 1], st_out[q].scope)
            ELSE IF st_out[q].kind = "close" THEN SubSeq(F[q - 1], 1, Len(F[q - 1]) - 1)
            ELSE F[q - 1]
    IN  F[p]

\* The scope whose block line p is directly inside.
Enclosing(p) ==
    LET open == OpenScopes(p - 1)
    IN  IF open = <<>> THEN OUTERMOST_SOURCE_SCOPE ELSE open[Len(open)]

IsDecl(ln) == ln.kind \in {"debug", "let"}
DeclScope(ln) == IF ln.kind = "debug" THEN var_debug_info[ln.item] ELSE local_decls[ln.item + 1]

\* The declarations the scope tree has to show.
Decls ==
    {<<"debug", k>> : k \in 1..Len(var_debug_info)}
    \cup {<<"let", l>> : l \in {x \in 0..(Len(local_decls) - 1) : x \notin 1..arg_count}}

\* C13: in the scope tree of a well-formed body every debug-info record and
\* every local that is no argument, declared in scope S, is written once: in
\* the block of S itself (the innermost open braces are those of S), before
\* the braces of any child of S open, at indentation 4 * depth of S, which is
\* 4 more than that of the contents of the parent of S. The rendering neither
\* fails an assertion nor recurses without end, and when it has returned Ok
\* every such declaration is there.
C13_DeclsInOwnScope ==
    (st_pc # "idle" /\ WellFormed) =>
        /\ st_pc \notin {"panic", "unbounded"}
        /\ \A p \in 1..Len(st_out) :
              LET ln == st_out[p]
              IN  IF IsDecl(ln)
                  THEN /\ <<ln.kind, ln.item>> \in Decls
                       /\ ln.scope = DeclScope(ln)
                       /\ Enclosing(p) = DeclScope(ln)
                       /\ ln.indent = INDENT_len * Depth(DeclScope(ln))
                       /\ \A q \in 1..(p - 1) :
                             /\ st_out[q].kind = "open" =>
                                    parent_scope(st_out[q].scope) # DeclScope(ln)
                             /\ IsDecl(st_out[q]) =>
                                    <<st_out[q].kind, st_out[q].item>> # <<ln.kind, ln.item>>
                  ELSE IF ln.kind = "open"
                  THEN /\ Enclosing(p) = parent_scope(ln.scope)
                       /\ ln.indent = INDENT_len * Depth(parent_scope(ln.scope))
                       /\ INDENT_len * Depth(ln.scope) > ln.indent
                  ELSE /\ Enclosing(p) = ln.scope
                       /\ ln.indent = INDENT_len * Depth(parent_scope(ln.scope))
        /\ st_pc = "done" =>
              /\ \A d \in Decls : \E p \in 1..Len(st_out) :
                                     IsDecl(st_out[p]) /\ <<st_out[p].kind, st_out[p].item>> = d
              /\ OpenScopes(Len(st_out)) = <<>>

\* The tree of a root with the children 1 and 2: a debug-info record of scope
\* 1, the local _1 of scope 2, and the return place in the root.
C13_Witness ==
    /\ st_pc = "done"
    /\ source_scopes = <<NoParent, 0, 0>>
    /\ var_debug_info = <<1>> /\ local_decls = <<0, 2>> /\ arg_count = 0
    /\ Len(st_out) = 7

Rendering == st_pc \notin {"idle", "intro"}

\* C14 as stated: a body whose root scope carries a parent pointer is stopped
\* by a failed assertion: nothing of its scope tree is rendered, and the
\* recursion is never without bound.
C14_RootWithParentIsRejected ==
    (Rendering /\ parent_scope(OUTERMOST_SOURCE_SCOPE) # NoParent) =>
        (st_pc = "panic" /\ st_out = <<>>)

\* C14 as amended: the assertion of write_mir_intro is that a scope without a
\* parent is the root. It fails, before any line of the tree is written, for
\* exactly the bodies with a scope other than 0 that has no parent; the
\* assertion of write_scope_tree never fails. A root with a parent pointer is
\* not looked at: write_scope_tree starts at scope 0 all the same, and its
\* recursion is without end when scope 0 lies on a cycle of parent pointers,
\* and only then; off a cycle the scopes below scope 0 are rendered and the
\* scopes above it are not.
C14_ParentlessScopeIsRoot ==
    Rendering =>
        /\ st_pc = "panic" <=>
              \E k \in Scopes \ {OUTERMOST_SOURCE_SCOPE} : parent_scope(k) = NoParent
        /\ st_pc = "panic" => st_out = <<>>
        /\ st_pc = "unbounded" => OnCycle(OUTERMOST_SOURCE_SCOPE)
        /\ st_pc = "done" => ~OnCycle(OUTERMOST_SOURCE_SCOPE)
        /\ (st_pc = "done" /\ parent_scope(OUTERMOST_SOURCE_SCOPE) # NoParent) =>
              \A p \in 1..Len(st_out), m \in 1..Len(source_scopes) :
                  st_out[p].scope # Up(OUTERMOST_SOURCE_SCOPE, m)

\* The root has scope 1 as its parent, scope 1 itself: the rendering returns
\* Ok with scope 0 and its child 2, without the debug-info record of scope 1.
C14_Witness ==
    /\ st_pc = "done"
    /\ source_scopes = <<1, 1, 0>>
    /\ var_debug_info = <<1>> /\ local_decls = <<0, 2>> /\ arg_count = 0
    /\ Len(st_out) = 4

----------------------------------------------------------------------------
(* SpecFs: sys::switch::fs::File *)

MaxFiles == 3         \* most File values of a behaviour
MaxHandles == 2       \* most handles OpenFile returns in a behaviour
MaxFileSize == 2      \* largest file size

\* The positions and the offsets of the behaviours.
MaxPos == 2 * MaxFileSize
Offsets == (-(MaxFileSize + 1))..(MaxFileSize + 1)

APPEND_MODE == 4

\* File { inner, pos, attr }: attr.size is the cached size.
File(inner, pos, sz) == [alive |-> TRUE, inner |-> inner, pos |-> pos, size |-> sz]
\* A File that has been dropped.
Dropped == [alive |-> FALSE, inner |-> 0, pos |-> 0, size |-> 0]

Alive == {f \in 1..Len(fs_files) : fs_files[f].alive}

\* What an operation returned: Ok(value) when err = "", Err(err) otherwise; for
\* a seek also its argument and the position before it.
Ret(op, f, whence, offset, before, err, value) ==
    [op |-> op, file |-> f, whence |-> whence, offset |-> offset, before |-> before,
     err |-> err, value |-> value]
Ok(op, f, value) == Ret(op, f, "", 0, 0, "", value)
Err(op, f, err) == Ret(op, f, "", 0, 0, err, 0)

InitFs ==
    /\ filter = NoFilter /\ graphviz = FALSE
    /\ pass_name = <<>> /\ node_path = <<>> /\ enabled = FALSE
    /\ DumpIdle
    /\ AllocIdle
    /\ BytesIdle
    /\ PathIdle /\ ScopeIdle
    /\ FsIdle

\* nnsdk::fs::CloseFile(handle)
CloseFile(closed, handle) == [closed EXCEPT ![handle] = @ + 1]

\* File::open. The outcomes of the calls it makes:
\*   "path"      path.to_str() is None or the path has a NUL byte
\*   "open"      OpenFile returns res != 0
\*   "null"      OpenFile returns 0 and a null handle
\*   "size"      GetFileSize returns rc != 0
\*   "stat"      GetEntryType returns rc != 0 in stat_internal
\*   "truncate"  SetFileSize returns rc != 0 in file.truncate(0)
\*   "ok"        every call succeeds
\* From "size" on OpenFile has returned a handle. On "size" and "stat" no File
\* holds it when open returns; on "truncate" the File is dropped by `?`.
Open ==
    /\ Len(fs_files) < MaxFiles /\ Len(fs_closed) < MaxHandles
    /\ \E flags \in {0, APPEND_MODE}, truncate \in BOOLEAN, sz \in 0..MaxFileSize,
          outcome \in {"path", "open", "null", "size", "stat", "truncate", "ok"} :
        LET inner == Len(fs_closed) + 1
            f == Len(fs_files) + 1
            pos == IF flags = APPEND_MODE THEN sz ELSE 0
        IN  /\ (outcome = "truncate") => truncate
            /\ IF outcome = "path"
               THEN /\ fs_ret' = Err("open", 0, "InvalidInput")
                    /\ UNCHANGED <<fs_files, fs_closed, fs_backend>>
               ELSE IF outcome = "open"
               THEN /\ fs_ret' = Err("open", 0, "os")
                    /\ UNCHANGED <<fs_files, fs_closed, fs_backend>>
               ELSE IF outcome = "null"
               THEN /\ fs_ret' = Err("open", 0, "NotFound")
                    /\ UNCHANGED <<fs_files, fs_closed, fs_backend>>
               ELSE IF outcome \in {"size", "stat"}
               THEN /\ fs_ret' = Err("open", 0, "os")
                    /\ fs_closed' = Append(fs_closed, 0)
                    /\ fs_backend' = Append(fs_backend, sz)
                    /\ UNCHANGED fs_files
               ELSE IF outcome = "truncate"
               THEN /\ fs_ret' = Err("open", 0, "os")
                    /\ fs_closed' = CloseFile(Append(fs_closed, 0), inner)
                    /\ fs_backend' = Append(fs_backend, sz)
                    /\ fs_files' = Append(fs_files, Dropped)
               ELSE /\ fs_ret' = Ok("open", f, 0)
                    /\ fs_closed' = Append(fs_closed, 0)
                    /\ fs_backend' = Append(fs_backend, IF truncate THEN 0 ELSE sz)
                    /\ fs_files' = Append(fs_files,
                                          File(inner, pos, IF truncate THEN 0 ELSE sz))
    /\ UNCHANGED <<gateVars, dumpVars, allocVars, byteVars, pathVars, scopeVars, fs_threads>>

\* File::duplicate: inner: self.inner.clone() is the same handle; no call is
\* made to the backend.
duplicate(file) == File(file.inner, file.pos, file.size)

Duplicate ==
    /\ Len(fs_files) < MaxFiles
    /\ \E f \in Alive :
          /\ fs_files' = Append(fs_files, duplicate(fs_files[f]))
          /\ fs_ret' = Ok("duplicate", Len(fs_files) + 1, 0)
    /\ UNCHANGED <<fs_closed, fs_backend>>
    /\ UNCHANGED <<gateVars, dumpVars, allocVars, byteVars, pathVars, scopeVars, fs_threads>>

\* Drop for File
Drop ==
    /\ \E f \in Alive :
          /\ fs_closed' = CloseFile(fs_closed, fs_files[f].inner)
          /\ fs_files' = [fs_files EXCEPT ![f] = Dropped]
          /\ fs_ret' = Ok("drop", f, 0)
    /\ UNCHANGED fs_backend
    /\ UNCHANGED <<gateVars, dumpVars, allocVars, byteVars, pathVars, scopeVars, fs_threads>>

\* SeekFrom::End(offset): self.attr.size() + (-offset as u64)
seek_end(file, offset) ==
    IF offset > 0 \/ (-offset) > file.size
    THEN [err |-> "InvalidInput", pos |-> file.pos]
    ELSE [err |-> "", pos |-> file.size + (-offset)]

\* File::seek: the error if any, and self.pos afterwards.
seek(file, whence, offset) ==
    IF whence = "Start" THEN [err |-> "", pos |-> offset]
    ELSE IF whence = "Current"
    THEN IF file.pos + offset < 0
         THEN [err |-> "InvalidInput", pos |-> file.pos]
         ELSE [err |-> "", pos |-> file.pos + offset]
    ELSE seek_end(file, offset)

Seek ==
    /\ \E f \in Alive, whence \in {"Start", "Current", "End"}, offset \in Offsets :
          LET r == seek(fs_files[f], whence, offset)
          IN  /\ whence = "Start" => offset >= 0
              /\ r.pos <= MaxPos
              /\ fs_files' = [fs_files EXCEPT ![f].pos = r.pos]
              /\ fs_ret' = Ret("seek", f, whence, offset, fs_files[f].pos, r.err,
                               IF r.err = "" THEN r.pos ELSE 0)
    /\ UNCHANGED <<fs_closed, fs_backend>>
    /\ UNCHANGED <<gateVars, dumpVars, allocVars, byteVars, pathVars, scopeVars, fs_threads>>

\* The size of a file of sz bytes after n bytes have been written at pos.
WrittenSize(sz, pos, n) == IF pos + n > sz THEN pos + n ELSE sz

\* File::write of a buffer of one byte: on rc == 0 the position moves and the
\* cached size follows it.
Write ==
    /\ \E f \in Alive, rc \in {0, 1} :
          LET file == fs_files[f]
              pos == file.pos + 1
          IN  /\ pos <= MaxFileSize
              /\ IF rc = 0
                 THEN /\ fs_files' = [fs_files EXCEPT ![f].pos = pos,
                                          ![f].size = IF pos > file.size THEN pos ELSE @]
                      /\ fs_backend' = [fs_backend EXCEPT ![file.inner] =
                                            WrittenSize(@, file.pos, 1)]
                      /\ fs_ret' = Ok("write", f, 1)
                 ELSE /\ fs_ret' = Err("write", f, "os")
                      /\ UNCHANGED <<fs_files, fs_backend>>
    /\ UNCHANGED fs_closed
    /\ UNCHANGED <<gateVars, dumpVars, allocVars, byteVars, pathVars, scopeVars, fs_threads>>

\* File::truncate: the cached size is set whatever SetFileSize returns.
Truncate ==
    /\ \E f \in Alive, sz \in 0..MaxFileSize, rc \in {0, 1} :
          /\ fs_files' = [fs_files EXCEPT ![f].size = sz]
          /\ fs_backend' = IF rc = 0 THEN [fs_backend EXCEPT ![fs_files[f].inner] = sz]
                           ELSE fs_backend
          /\ fs_ret' = IF rc = 0 THEN Ok("truncate", f, 0) ELSE Err("truncate", f, "os")
    /\ UNCHANGED fs_closed
    /\ UNCHANGED <<gateVars, dumpVars, allocVars, byteVars, pathVars, scopeVars, fs_threads>>

\* The File values of a program: opened, duplicated and dropped.
NextFs ==
    \/ Open
    \/ Duplicate
    \/ Drop

SpecFs == InitFs /\ [][NextFs]_vars

\* One File after a successful File::open, at position 0 or, opened for append,
\* at the end.
InitSeek ==
    /\ filter = NoFilter /\ graphviz = FALSE
    /\ pass_name = <<>> /\ node_path = <<>> /\ enabled = FALSE
    /\ DumpIdle
    /\ AllocIdle
    /\ BytesIdle
    /\ PathIdle /\ ScopeIdle
    /\ \E sz \in 0..MaxFileSize, pos \in 0..MaxFileSize :
          /\ pos \in {0, sz}
          /\ fs_files = <<File(1, pos, sz)>>
          /\ fs_backend = <<sz>>
    /\ fs_closed = <<0>>
    /\ fs_ret = Ok("open", 1, 0)
    /\ fs_threads = <<>>

\* The calls that move the position or the cached size of the File.
NextSeek ==
    \/ Seek
    \/ Write
    \/ Truncate

SpecSeek == InitSeek /\ [][NextSeek]_vars

\* A seek from the end has just returned.
SeekEndReturned == fs_ret.op = "seek" /\ fs_ret.whence = "End"

\* C19: seek(SeekFrom::End(offset)) with offset <= 0 and -offset <= the cached
\* size sets the position to size + offset and returns it, so the position is
\* not past the end of the file; with any other offset it returns InvalidInput
\* and leaves the position as it was.
C19_SeekFromEnd ==
    SeekEndReturned =>
        LET file == fs_files[fs_ret.file]
            offset == fs_ret.offset
        IN  IF offset <= 0 /\ (-offset) <= file.size
            THEN /\ fs_ret.err = ""
                 /\ fs_ret.value = file.size + offset
                 /\ file.pos = file.size + offset
                 /\ file.pos <= file.size
            ELSE /\ fs_ret.err = "InvalidInput"
                 /\ file.pos = fs_ret.before

\* C20: CloseFile is never called twice on the same handle, and no File that
\* is alive holds a handle that has been closed.
C20_HandleClosedOnce ==
    /\ \A h \in 1..Len(fs_closed) : fs_closed[h] <= 1
    /\ \A f \in Alive : fs_closed[fs_files[f].inner] = 0

\* C22: over write, truncate and seek calls on one File whose backend calls
\* may fail, the cached size stays the size of the file in the backend: a
\* successful write of one byte at position p moves the position to p + 1 and
\* raises the cached size to max(size, p + 1), a successful truncate(s) makes
\* it s, a failed write or truncate leaves position and cached size as they
\* were, and a seek does not change the cached size.
C22_CachedSizeIsBackendSize ==
    [][LET file == fs_files[1]
           after == fs_files'[1]
           ok == fs_ret'.err = ""
       IN  /\ after.size = fs_backend'[after.inner]
           /\ (fs_ret'.op = "write" /\ ok) =>
                 (after.pos = file.pos + 1 /\ after.size = Max(file.size, file.pos + 1))
           /\ (fs_ret'.op \in {"write", "truncate"} /\ ~ok) =>
                 (after.pos = file.pos /\ after.size = file.size)
           /\ (fs_ret'.op = "truncate" /\ ok) => after.pos = file.pos
           /\ fs_ret'.op = "seek" => after.size = file.size]_vars

----------------------------------------------------------------------------
(* SpecWrite: File::write calls of two threads on one File *)

MaxWriteLen == 2      \* largest buf.len()

\* The threads that share the File by reference.
Threads == {1, 2}

\* A File::write call of a thread: where it is (pc), buf.len() (n), the
\* position of the File when the call was made (p), the value self.pos() gave
\* for the WriteFile call (at), the value of the last atomic load (a), and the
\* error it returned if any (err).
Call(c_pc, c_n, c_p, c_at, c_a, c_err) ==
    [pc |-> c_pc, n |-> c_n, p |-> c_p, at |-> c_at, a |-> c_a, err |-> c_err]

\* One File after a successful File::open, and a write call of each thread
\* about to start.
InitWrite ==
    /\ filter = NoFilter /\ graphviz = FALSE
    /\ pass_name = <<>> /\ node_path = <<>> /\ enabled = FALSE
    /\ DumpIdle
    /\ AllocIdle
    /\ BytesIdle
    /\ PathIdle /\ ScopeIdle
    /\ fs_closed = <<0>>
    /\ fs_ret = Ok("open", 1, 0)
    /\ \E sz \in 0..MaxFileSize, pos \in 0..MaxFileSize, n1 \in 1..MaxWriteLen,
          n2 \in 1..MaxWriteLen :
          /\ pos \in {0, sz}
          /\ fs_files = <<File(1, pos, sz)>>
          /\ fs_backend = <<sz>>
          /\ fs_threads = <<Call("pos", n1, pos, 0, 0, ""), Call("pos", n2, pos, 0, 0, "")>>

\* A step of thread t that takes its call to c, the File to file and the size
\* of the file in the backend to sz.
StepBackend(t, c, file, sz) ==
    /\ fs_threads' = [fs_threads EXCEPT ![t] = c]
    /\ fs_files' = [fs_files EXCEPT ![1] = file]
    /\ fs_backend' = [fs_backend EXCEPT ![1] = sz]
    /\ UNCHANGED <<fs_closed, fs_ret>>
    /\ UNCHANGED <<gateVars, dumpVars, allocVars, byteVars, pathVars, scopeVars>>

\* A step that makes no call to the backend.
Step(t, c, file) == StepBackend(t, c, file, fs_backend[1])

\* self.pos() in the arguments of WriteFile
WriteLoadPos ==
    \E t \in Threads :
        /\ fs_threads[t].pc = "pos"
        /\ Step(t, [fs_threads[t] EXCEPT !.pc = "WriteFile", !.at = fs_files[1].pos],
                fs_files[1])

\* nnsdk::fs::WriteFile(self.inner, self.pos() as _, ..) at the position
\* loaded before: rc == 0, or the call returns Err(rc).
WriteFile ==
    \E t \in Threads :
        /\ fs_threads[t].pc = "WriteFile"
        /\ \/ StepBackend(t, [fs_threads[t] EXCEPT !.pc = "fetch_add"], fs_files[1],
                          WrittenSize(fs_backend[1], fs_threads[t].at, fs_threads[t].n))
           \/ Step(t, [fs_threads[t] EXCEPT !.pc = "done", !.err = "os"], fs_files[1])

\* self.pos.fetch_add(buf.len() as u64, Ordering::SeqCst)
WriteFetchAdd ==
    \E t \in Threads :
        /\ fs_threads[t].pc = "fetch_add"
        /\ Step(t, [fs_threads[t] EXCEPT !.pc = "cmp_pos"],
                [fs_files[1] EXCEPT !.pos = @ + fs_threads[t].n])

\* if self.pos() > ..
WriteCmpPos ==
    \E t \in Threads :
        /\ fs_threads[t].pc = "cmp_pos"
        /\ Step(t, [fs_threads[t] EXCEPT !.pc = "cmp_size", !.a = fs_files[1].pos],
                fs_files[1])

\* .. > self.attr.size() { .. } Ok(buf.len())
WriteCmpSize ==
    \E t \in Threads :
        /\ fs_threads[t].pc = "cmp_size"
        /\ Step(t, [fs_threads[t] EXCEPT
                        !.pc = IF fs_threads[t].a > fs_files[1].size
                               THEN "set_pos" ELSE "done"],
                fs_files[1])

\* self.pos() in the argument of set_size
WriteSetPos ==
    \E t \in Threads :
        /\ fs_threads[t].pc = "set_pos"
        /\ Step(t, [fs_threads[t] EXCEPT !.pc = "set_size", !.a = fs_files[1].pos],
                fs_files[1])

\* self.attr.set_size(..); Ok(buf.len())
WriteSetSize ==
    \E t \in Threads :
        /\ fs_threads[t].pc = "set_size"
        /\ Step(t, [fs_threads[t] EXCEPT !.pc = "done"],
                [fs_files[1] EXCEPT !.size = fs_threads[t].a])

NextWrite ==
    \/ WriteLoadPos
    \/ WriteFile
    \/ WriteFetchAdd
    \/ WriteCmpPos
    \/ WriteCmpSize
    \/ WriteSetPos
    \/ WriteSetSize

SpecWrite == InitWrite /\ [][NextWrite]_vars

\* Both calls have returned Ok.
BothWritten == \A t \in Threads : fs_threads[t].pc = "done" /\ fs_threads[t].err = ""

\* C21: two File::write calls of n1 and n2 bytes that run concurrently on one
\* File from position p and both return Ok have written the byte ranges
\* [p, p + n1) and [p + n1, p + n1 + n2), or [p, p + n2) and
\* [p + n2, p + n1 + n2), never both at the same offset, and leave the
\* position at p + n1 + n2.
C21_ConcurrentWritesDisjoint ==
    BothWritten =>
        LET c1 == fs_threads[1]
            c2 == fs_threads[2]
        IN  /\ fs_files[1].pos = c1.p + c1.n + c2.n
            /\ c1.at # c2.at
            /\ \/ c1.at = c1.p /\ c2.at = c1.p + c1.n
               \/ c2.at = c2.p /\ c1.at = c2.p + c2.n

====
